---- MODULE Spec2Model ----
(***************************************************************************)
(* A state-machine model of the knowledge-base pipeline of                 *)
(* faithcal-mastra-app: DocumentIndexTool (ingestion), KnowledgeSearchTool *)
(* (retrieval), KnowledgeManagementTool (maintenance) and PineconeHelper   *)
(* (vector-store adapter).                                                 *)
(*                                                                         *)
(* Conventions.                                                            *)
(*  - A string is a sequence of character codes, so that trimming, case    *)
(*    folding, whitespace collapsing, splitting and hashing are computed   *)
(*    as the code computes them.  Category and source labels, which the    *)
(*    modelled code only compares or copies, are TLA+ strings.             *)
(*  - An options object is a record; an omitted option is a field that is  *)
(*    not in the record's domain (Get supplies the destructuring default). *)
(*  - The vector index and the embedding service are collaborators.  The   *)
(*    index is the variable store, a sequence of records with unique ids;  *)
(*    every call to a collaborator is appended to calls, and a call fails  *)
(*    when the fault plan of the running operation says so.                *)
(*  - A similarity score is an integer number of hundredths (70 is 0.7).   *)
(***************************************************************************)
EXTENDS Integers, Sequences, FiniteSets, TLC

VARIABLES
    store,      \* the vector index: a sequence of [id, values, metadata]
    api,        \* which delete primitive the index object offers
    clock,      \* Date.now(), in ticks
    phase,      \* "idle": no call in progress; "done": a call has returned
    request,    \* the call that returned last: [tool, op, options, ...]
    result,     \* what that call returned (or the exception it threw)
    calls,      \* the collaborator calls that call issued, in order
    before,     \* the store when that call started
    opCount,    \* operations completed so far
    tasks       \* the update calls in flight at once: [options, pc, matches, result]

vars == <<store, api, clock, phase, request, result, calls, before, opCount, tasks>>

----------------------------------------------------------------------------
(* Bounds of the model *)

MaxOps == 1
MaxFault == 2

----------------------------------------------------------------------------
(* Generic helpers *)

Get(o, k, default) == IF k \in DOMAIN o THEN o[k] ELSE default

Has(o, k) == k \in DOMAIN o

\* { ...a, ...b }
Spread(a, b) ==
    [k \in (DOMAIN a) \cup (DOMAIN b) |-> IF k \in DOMAIN b THEN b[k] ELSE a[k]]

Min(a, b) == IF a <= b THEN a ELSE b

Max(a, b) == IF a >= b THEN a ELSE b

\* Math.ceil(a / b) for a >= 0, b > 0
CeilDiv(a, b) == (a + b - 1) \div b

Range(s) == {s[i] : i \in 1..Len(s)}

Reverse(s) == [i \in 1..Len(s) |-> s[Len(s) + 1 - i]]

\* const v = e; F(v): e is evaluated once, before F. TLC evaluates the
\* definitions of a LET and the arguments of an operator each time they are
\* used; a bound variable holds a value
Let(e, F(_)) == CHOOSE r \in {F(v) : v \in {e}} : TRUE

RECURSIVE FoldRange(_, _, _, _)
\* for (i = lo; i <= hi; i++) st = Step(st, i), by halving the range
FoldRange(Step(_, _), st, lo, hi) ==
    IF lo > hi THEN st
    ELSE IF lo = hi THEN Let(st, LAMBDA start : Step(start, lo))
    ELSE Let(FoldRange(Step, st, lo, (lo + hi) \div 2),
             LAMBDA left : FoldRange(Step, left, ((lo + hi) \div 2) + 1, hi))

\* for (const x of xs) st = Step(st, x)
FoldSeq(Step(_, _), st, xs) ==
    Let(xs, LAMBDA items :
        FoldRange(LAMBDA acc, i : Step(acc, items[i]), st, 1, Len(items)))

\* xs.filter(P)
Filter(xs, P(_)) ==
    FoldSeq(LAMBDA acc, x : IF P(x) THEN Append(acc, x) ELSE acc, <<>>, xs)

\* the concatenation of the sequences of ss
Flatten(ss) == FoldSeq(LAMBDA acc, x : acc \o x, <<>>, ss)

----------------------------------------------------------------------------
(* Strings as sequences of character codes *)

SP == <<32>>
NLNL == <<10, 10>>

\* JavaScript's \s, restricted to the ASCII range
IsSpace(c) == c \in {9, 10, 11, 12, 13, 32}

\* String.prototype.toLowerCase, ASCII range
ToLower(s) == [i \in 1..Len(s) |-> IF s[i] \in 65..90 THEN s[i] + 32 ELSE s[i]]

\* String.prototype.trim
Trim(s) ==
    IF \A i \in 1..Len(s) : IsSpace(s[i]) THEN <<>>
    ELSE LET first == CHOOSE i \in 1..Len(s) :
                          ~IsSpace(s[i]) /\ \A j \in 1..(i - 1) : IsSpace(s[j])
             last == CHOOSE i \in 1..Len(s) :
                          ~IsSpace(s[i]) /\ \A j \in (i + 1)..Len(s) : IsSpace(s[j])
         IN  SubSeq(s, first, last)

\* s.replace(/\s+/g, ' ')
CollapseWs(s) ==
    FoldRange(LAMBDA out, i :
                  IF ~IsSpace(s[i]) THEN Append(out, s[i])
                  ELSE IF i > 1 /\ IsSpace(s[i - 1]) THEN out
                  ELSE Append(out, 32),
              <<>>, 1, Len(s))

\* does s contain t at (1-based) position i
MatchAt(s, t, i) ==
    /\ i + Len(t) - 1 <= Len(s)
    /\ \A j \in 1..Len(t) : s[i + j - 1] = t[j]

\* String.prototype.includes
Includes(s, t) == \E i \in 1..(Len(s) + 1) : MatchAt(s, t, i)

\* Array.prototype.join
Join(parts, sep) ==
    Let(parts, LAMBDA ps :
        FoldRange(LAMBDA out, i : IF i = 1 THEN ps[i] ELSE out \o sep \o ps[i],
                  <<>>, 1, Len(ps)))

\* the pieces of a split, from the scan state [pieces, acc]
ClosePiece(st) == Append(st.pieces, st.acc)

\* s.split(' ')
SplitSpace(s) ==
    ClosePiece(FoldRange(LAMBDA st, i :
                             IF s[i] = 32
                             THEN [pieces |-> ClosePiece(st), acc |-> <<>>]
                             ELSE [pieces |-> st.pieces, acc |-> Append(st.acc, s[i])],
                         [pieces |-> <<>>, acc |-> <<>>], 1, Len(s)))

\* s.split(/\s+/): maximal whitespace runs separate the pieces
SplitWs(s) ==
    ClosePiece(FoldRange(LAMBDA st, i :
                             IF ~IsSpace(s[i])
                             THEN [pieces |-> st.pieces, acc |-> Append(st.acc, s[i])]
                             ELSE IF i > 1 /\ IsSpace(s[i - 1]) THEN st
                             ELSE [pieces |-> ClosePiece(st), acc |-> <<>>],
                         [pieces |-> <<>>, acc |-> <<>>], 1, Len(s)))

----------------------------------------------------------------------------
(* 32-bit arithmetic of KnowledgeManagementTool.hashContent *)

Two16 == 65536

\* one round of  hash = ((hash << 5) - hash) + char; hash = hash & hash
\* on a 32-bit value kept as two 16-bit halves <<hi, lo>>
HashStep(h, c) ==
    LET lo == h[2] * 31 + c
        hi == h[1] * 31 + (lo \div Two16)
    IN  <<hi % Two16, lo % Two16>>

\* the signed 32-bit integer the two halves denote
ToInt32(h) == IF h[1] >= 32768 THEN (h[1] - Two16) * Two16 + h[2] ELSE h[1] * Two16 + h[2]

\* the normalisation hashContent applies before hashing
Normalized(content) ==
    Let(ToLower(content), LAMBDA lower :
        Let(CollapseWs(lower), LAMBDA collapsed : Trim(collapsed)))

\* KnowledgeManagementTool.hashContent: the hash, whose decimal text is returned
hashContent(content) == ToInt32(FoldSeq(HashStep, <<0, 0>>, Normalized(content)))

----------------------------------------------------------------------------
(* DocumentIndexTool.intelligentChunking *)

\* the last index of the whitespace run that follows position j (j if none)
WsRunEnd(s, j) ==
    IF \A k \in (j + 1)..Len(s) : IsSpace(s[k]) THEN Max(j, Len(s))
    ELSE (CHOOSE k \in (j + 1)..Len(s) :
              ~IsSpace(s[k]) /\ \A m \in (j + 1)..(k - 1) : IsSpace(s[m])) - 1

\* a match of /\n\s*\n/ starts at i: a newline whose following whitespace run
\* holds another newline
ParaSepAt(s, i) ==
    /\ s[i] = 10
    /\ \E k \in (i + 1)..WsRunEnd(s, i) : s[k] = 10

\* where that match ends: \s* is greedy, so at the last newline of the run
ParaSepEnd(s, i) ==
    Let({k \in (i + 1)..WsRunEnd(s, i) : s[k] = 10},
        LAMBDA ks : CHOOSE k \in ks : \A k2 \in ks : k2 <= k)

IsTerminator(c) == c \in {46, 33, 63}

\* the last index of the run of terminators that starts at i
TermRunEnd(s, i) ==
    IF \A k \in (i + 1)..Len(s) : IsTerminator(s[k]) THEN Max(i, Len(s))
    ELSE (CHOOSE k \in (i + 1)..Len(s) :
              ~IsTerminator(s[k]) /\ \A m \in (i + 1)..(k - 1) : IsTerminator(s[m])) - 1

\* a match of /[.!?]+\s+/ starts at i: a run of terminators that whitespace follows
SentSepAt(s, i) ==
    /\ IsTerminator(s[i])
    /\ Let(TermRunEnd(s, i), LAMBDA j : WsRunEnd(s, j) > j)

\* where that match ends: at the last character of the whitespace run
SentSepEnd(s, i) == Let(TermRunEnd(s, i), LAMBDA j : WsRunEnd(s, j))

\* s.split(re) for a pattern given by where a match starts and where it ends:
\* a left-to-right scan; st = [pieces, from, skip], with from the start of the
\* piece being read and skip the end of the last match
SplitScan(s, SepAt(_, _), SepEnd(_, _)) ==
    Let(FoldRange(LAMBDA t, i :
                      IF i <= t.skip \/ ~SepAt(s, i) THEN t
                      ELSE Let(SepEnd(s, i), LAMBDA end :
                               [pieces |-> Append(t.pieces, SubSeq(s, t.from, i - 1)),
                                from |-> end + 1, skip |-> end]),
                  [pieces |-> <<>>, from |-> 1, skip |-> 0], 1, Len(s)),
        LAMBDA st : Append(st.pieces, SubSeq(s, st.from, Len(s))))

\* content.split(/\n\s*\n/)
SplitParagraphs(s) == SplitScan(s, ParaSepAt, ParaSepEnd)

\* paragraph.split(/[.!?]+\s+/)
SplitSentences(s) == SplitScan(s, SentSepAt, SentSepEnd)

\* xs.filter(x => x.trim().length > 0)
NonBlank(xs) == Filter(xs, LAMBDA x : Len(Trim(x)) > 0)

\* words.slice(-n): all of words when n is 0 (slice(-0) is slice(0))
SliceTail(words, n) ==
    IF n = 0 THEN words
    ELSE IF n > 0 THEN SubSeq(words, Max(1, Len(words) - n + 1), Len(words))
    ELSE SubSeq(words, Min(Len(words), -n) + 1, Len(words))

\* the overlap seed: the last floor(overlap / 10) space-separated words
OverlapSeed(chunk, overlap) ==
    Let(SplitSpace(chunk), LAMBDA words : Join(SliceTail(words, overlap \div 10), SP))

\* chunks.push(c.trim()) guarded by  if (c.trim())
PushTrimmed(chunks, c) ==
    Let(Trim(c), LAMBDA trimmed : IF Len(trimmed) > 0 THEN Append(chunks, trimmed) ELSE chunks)

\* one pass of the loop over the sentences of an oversized paragraph;
\* st = [chunks, cur] with cur the sentenceChunk
SentenceStep(st, sentence, chunkSize, overlap) ==
    IF Len(st.cur) + Len(sentence) > chunkSize /\ Len(st.cur) > 0
    THEN [chunks |-> Append(st.chunks, Trim(st.cur)),
          cur |-> OverlapSeed(st.cur, overlap) \o SP \o sentence]
    ELSE [chunks |-> st.chunks,
          cur |-> st.cur \o (IF Len(st.cur) > 0 THEN SP ELSE <<>>) \o sentence]

\* the sentence-level split of an oversized paragraph, appended to chunks
SentenceChunks(chunks, paragraph, chunkSize, overlap) ==
    Let(FoldSeq(LAMBDA t, sentence : SentenceStep(t, sentence, chunkSize, overlap),
                [chunks |-> chunks, cur |-> <<>>],
                NonBlank(SplitSentences(paragraph))),
        LAMBDA st : PushTrimmed(st.chunks, st.cur))

\* one pass of the loop over the paragraphs; st = [chunks, cur, size] with cur
\* the currentChunk and size the currentSize
ParagraphStep(st, paragraph, chunkSize, overlap) ==
    LET paragraphSize == Len(paragraph) IN
    IF paragraphSize > chunkSize
    THEN [chunks |-> SentenceChunks(PushTrimmed(st.chunks, st.cur), paragraph,
                                    chunkSize, overlap),
          cur |-> <<>>, size |-> 0]
    ELSE IF st.size + paragraphSize > chunkSize /\ Len(st.cur) > 0
    THEN Let(OverlapSeed(st.cur, overlap) \o NLNL \o paragraph,
             LAMBDA next : [chunks |-> Append(st.chunks, Trim(st.cur)),
                            cur |-> next, size |-> Len(next)])
    ELSE [chunks |-> st.chunks,
          cur |-> st.cur \o (IF Len(st.cur) > 0 THEN NLNL ELSE <<>>) \o paragraph,
          size |-> st.size + paragraphSize + 2]

\* a change of intelligentChunking: the content is one chunk, whatever it holds
intelligentChunkingWhole(content, chunkSize, overlap) == <<content>>

intelligentChunking(content, chunkSize, overlap) ==
    Let(FoldSeq(LAMBDA t, paragraph : ParagraphStep(t, paragraph, chunkSize, overlap),
                [chunks |-> <<>>, cur |-> <<>>, size |-> 0],
                NonBlank(SplitParagraphs(content))),
        LAMBDA st : Filter(PushTrimmed(st.chunks, st.cur), LAMBDA chunk : Len(chunk) > 0))

----------------------------------------------------------------------------
(* The collaborators: the vector index and the embedding service *)

\* The running operation's view of the world: s = [store, calls, n] is the index,
\* the calls issued so far and how many of each kind; env = [f, ord, sc, api,
\* now, files] is what the operation does not control: f[kind] = k makes the
\* k-th call of that kind fail (0: none), ord and sc are the order and the
\* scores the index answers a query with, api is the delete primitive the
\* index object has, now the clock, files the file system.
Kinds == {"query", "delete", "update", "upsert", "embed", "stats"}

NoFault == [k \in Kinds |-> 0]

Start(st) == [store |-> st, calls |-> <<>>, n |-> NoFault]

\* whether the call of this kind that is about to be issued succeeds
Succeeds(s, env, kind) == env.f[kind] # s.n[kind] + 1

\* s after a call of this kind has been issued
Issued(s, kind, arg, ok) ==
    [s EXCEPT !.calls = Append(@, [kind |-> kind, arg |-> arg, ok |-> ok]),
              !.n[kind] = @ + 1]

Ids(records) == Let(records, LAMBDA rs : [i \in 1..Len(rs) |-> rs[i].id])

IdSet(records) == {records[i].id : i \in 1..Len(records)}

\* a metadata filter { field: { $eq: value } } holds of a record
Matches(rec, filter) ==
    \A k \in DOMAIN filter : k \in DOMAIN rec.metadata /\ rec.metadata[k] = filter[k]

\* the score the index gives the record at position i of the store
ScoreAt(env, i) == env.sc[((i - 1) % Len(env.sc)) + 1]

\* the order in which the index lists equally scored records in its q-th answer
OrdAt(env, q) == env.ord[((q - 1) % Len(env.ord)) + 1]

\* the scored records, highest score first; equal scores in the order OrdAt
Ranked(st, env, q) ==
    LET scored == [i \in 1..Len(st) |->
                      [id |-> st[i].id, score |-> ScoreAt(env, i),
                       metadata |-> st[i].metadata]]
    IN  Let(IF OrdAt(env, q) = "rev" THEN Reverse(scored) ELSE scored, LAMBDA base :
        Let({ScoreAt(env, i) : i \in 1..Len(st)}, LAMBDA levels :
            FoldRange(LAMBDA acc, k :
                          LET lv == 100 - k IN
                          IF lv \in levels
                          THEN acc \o Filter(base, LAMBDA m : m.score = lv)
                          ELSE acc,
                      <<>>, 0, 100)))

\* index.query({vector, topK, includeMetadata, filter}): the topK best matches
\* among the records the filter holds of
IndexQuery(s, env, filter, topK) ==
    IF ~Succeeds(s, env, "query")
    THEN [ok |-> FALSE, matches |-> <<>>,
          s |-> Issued(s, "query", [filter |-> filter, topK |-> topK], FALSE)]
    ELSE Let(Filter(Ranked(s.store, env, s.n["query"] + 1),
                    LAMBDA m : Matches(m, filter)),
             LAMBDA all :
                 [ok |-> TRUE, matches |-> SubSeq(all, 1, Min(topK, Len(all))),
                  s |-> Issued(s, "query", [filter |-> filter, topK |-> topK], TRUE)])

\* the index after the records with these ids are deleted
Without(st, ids) == Let(ids, LAMBDA gone : Filter(st, LAMBDA r : r.id \notin gone))

\* a delete primitive (deleteMany(ids), delete({ids}) or delete1([id]))
IndexDelete(s, env, prim, ids) ==
    IF ~Succeeds(s, env, "delete")
    THEN [ok |-> FALSE, s |-> Issued(s, "delete", [prim |-> prim, ids |-> ids], FALSE)]
    ELSE [ok |-> TRUE,
          s |-> [Issued(s, "delete", [prim |-> prim, ids |-> ids], TRUE)
                     EXCEPT !.store = Without(@, Range(ids))]]

\* index.update({id, metadata}): the fields given are set, the others kept
IndexUpdate(s, env, id, metadata) ==
    IF ~Succeeds(s, env, "update")
    THEN [ok |-> FALSE, s |-> Issued(s, "update", [id |-> id, metadata |-> metadata], FALSE)]
    ELSE [ok |-> TRUE,
          s |-> [Issued(s, "update", [id |-> id, metadata |-> metadata], TRUE)
                     EXCEPT !.store = [i \in 1..Len(@) |->
                                          IF @[i].id = id
                                          THEN [@[i] EXCEPT !.metadata = Spread(@, metadata)]
                                          ELSE @[i]]]]

\* index.upsert(batch): a record replaces the one with its id, or is added
IndexUpsert(s, env, batch) ==
    IF ~Succeeds(s, env, "upsert")
    THEN [ok |-> FALSE, s |-> Issued(s, "upsert", Ids(batch), FALSE)]
    ELSE [ok |-> TRUE,
          s |-> [Issued(s, "upsert", Ids(batch), TRUE)
                     EXCEPT !.store = Without(@, IdSet(batch)) \o batch]]

\* index.describeIndexStats()
IndexStats(s, env) ==
    IF ~Succeeds(s, env, "stats")
    THEN [ok |-> FALSE, s |-> Issued(s, "stats", <<>>, FALSE)]
    ELSE [ok |-> TRUE, totalVectorCount |-> Len(s.store),
          s |-> Issued(s, "stats", <<>>, TRUE)]

\* the vector the embedding service answers a text with
Embedding(text) == [of |-> text]


----------------------------------------------------------------------------
(* DocumentIndexTool *)

UpsertBatchSize == 100

EmbedBatchSize == 10

DefaultChunkSize == 1000

DefaultChunkOverlap == 200

ShortContent == 50

LargeContent == 1000000

WordsPerMinute == 200

ThisYear == 2026

\* new Date().toISOString() at the tick now
IsoNow(env) == [year |-> ThisYear, tick |-> env.now]

DefaultIndexOptions ==
    [chunkSize |-> DefaultChunkSize, chunkOverlap |-> DefaultChunkOverlap,
     extractMetadata |-> TRUE, validateContent |-> TRUE]

\* a value of a flat JSON object as text: one "key: value\n" line per entry
jsonToText(pairs) ==
    Flatten([i \in 1..Len(pairs) |-> pairs[i][1] \o <<58, 32>> \o pairs[i][2] \o <<10>>])

\* a change of processFile: neither the existence of the file nor its
\* extension is checked
processFileUnchecked(env, filePath) ==
    [success |-> TRUE,
     content |-> IF filePath \notin DOMAIN env.files THEN <<>>
                 ELSE IF env.files[filePath].ext = ".json"
                 THEN jsonToText(env.files[filePath].text)
                 ELSE env.files[filePath].text,
     metadata |-> [fileName |-> filePath], errors |-> <<>>]

\* processFile: the text of a file of the file system env.files; a file is
\* [ext, text, broken], broken when reading or parsing it throws
processFile(env, filePath) ==
    IF filePath \notin DOMAIN env.files
    THEN [success |-> FALSE, content |-> <<>>, metadata |-> << >>,
          errors |-> << <<"File not found", filePath>> >>]
    ELSE LET file == env.files[filePath]
             info == [fileName |-> filePath, fileType |-> file.ext]
         IN  IF file.ext \notin {".txt", ".md", ".pdf", ".html", ".json"}
             THEN [success |-> FALSE, content |-> <<>>, metadata |-> info,
                   errors |-> << <<"Unsupported file type", file.ext>> >>]
             ELSE IF file.broken
             THEN [success |-> FALSE, content |-> <<>>, metadata |-> info,
                   errors |-> << <<"File processing error", filePath>> >>]
             ELSE [success |-> TRUE,
                   content |-> IF file.ext = ".json" THEN jsonToText(file.text)
                               ELSE file.text,
                   metadata |-> info, errors |-> <<>>]

\* /api[_\s]*key/ matches at i
ApiKeyAt(s, i) ==
    /\ MatchAt(s, <<97, 112, 105>>, i)
    /\ \E k \in (i + 3)..(Len(s) - 2) :
           /\ MatchAt(s, <<107, 101, 121>>, k)
           /\ \A j \in (i + 3)..(k - 1) : s[j] = 95 \/ IsSpace(s[j])

\* an error message is the tuple of its fixed text and the values put into it
validateContent(content, title) ==
    LET lc == ToLower(content)
        empty == Len(content) = 0 \/ Len(Trim(content)) = 0
        noTitle == Len(title) = 0 \/ Len(Trim(title)) = 0
        errors == (IF empty THEN << <<"Content is empty or contains only whitespace">> >>
                   ELSE <<>>)
                  \o (IF noTitle THEN << <<"Title is required">> >> ELSE <<>>)
        warnings ==
            (IF Len(content) < ShortContent THEN <<"Content is very short">> ELSE <<>>)
            \o (IF Len(content) > LargeContent THEN <<"Content is very large">> ELSE <<>>)
            \o (IF Includes(lc, <<112, 97, 115, 115, 119, 111, 114, 100>>)
                THEN <<"sensitive (password)">> ELSE <<>>)
            \o (IF \E i \in 1..Len(lc) : ApiKeyAt(lc, i)
                THEN <<"sensitive (api[_\\s]*key)">> ELSE <<>>)
            \o (IF Includes(lc, <<115, 101, 99, 114, 101, 116>>)
                THEN <<"sensitive (secret)">> ELSE <<>>)
            \o (IF Includes(lc, <<116, 111, 107, 101, 110>>)
                THEN <<"sensitive (token)">> ELSE <<>>)
    IN  [isValid |-> ~empty /\ ~noTitle, errors |-> errors, warnings |-> warnings]

\* extractMetadata: the statistics; the advisory topics, entities and summary
\* fields are left out
extractMetadata(content, title) ==
    Let(Filter(SplitWs(content), LAMBDA w : Len(w) > 0), LAMBDA words :
        [wordCount |-> Len(words),
         estimatedReadingTime |-> CeilDiv(Len(words), WordsPerMinute),
         language |-> "en"])

\* generateChunkId: the string titleHash-chunkIndex-timestamp, as its three parts
TitleHash(title) ==
    LET lc == ToLower(title)
        dashed == [i \in 1..Len(lc) |->
                      IF lc[i] \in 97..122 \/ lc[i] \in 48..57 THEN lc[i] ELSE 45]
    IN  SubSeq(dashed, 1, Min(20, Len(dashed)))

\* a change of generateChunkId: the chunk's index is left out of the id
generateChunkIdOfTitle(env, title, chunkIndex) == <<TitleHash(title), 0, env.now>>

\* a change of generateChunkId: the time of the ingestion is left out of the id
generateChunkIdUntimed(env, title, chunkIndex) == <<TitleHash(title), chunkIndex, 0>>

generateChunkId(env, title, chunkIndex) == <<TitleHash(title), chunkIndex, env.now>>

\* createEmbedding(text)
createEmbedding(s, env, text) ==
    LET ok == Succeeds(s, env, "embed")
    IN  [ok |-> ok, embedding |-> Embedding(text), s |-> Issued(s, "embed", text, ok)]

\* the order in which the n calls of one batch complete: env.done, when it is
\* there, says whether the first issued or the last issued completes first
CompletionOrder(env, n) ==
    IF Get(env, "done", "fwd") = "rev" THEN [k \in 1..n |-> n + 1 - k]
    ELSE [k \in 1..n |-> k]

\* the answers of the calls of a batch as they arrive: each comes with the
\* position of its call in the batch
Arrivals(env, answers) ==
    Let(CompletionOrder(env, Len(answers)), LAMBDA order :
        [k \in 1..Len(answers) |-> [index |-> order[k], value |-> answers[order[k]]]])

\* a change of PromiseAll: the values are collected in the order of arrival
InArrivalOrder(arrivals) == [k \in 1..Len(arrivals) |-> arrivals[k].value]

\* Promise.all: the value of the i-th promise is the i-th of the result,
\* whenever it arrives
PromiseAll(arrivals) ==
    [i \in 1..Len(arrivals) |->
        arrivals[CHOOSE k \in 1..Len(arrivals) : arrivals[k].index = i].value]

\* one batch of generateEmbeddings: batch.map issues every call of the batch,
\* and Promise.all rejects when one of them fails
EmbedBatch(s, env, batch) ==
    Let(FoldSeq(LAMBDA acc, chunk :
                    Let(createEmbedding(acc.s, env, chunk), LAMBDA r :
                        [ok |-> acc.ok /\ r.ok, s |-> r.s,
                         embeddings |-> Append(acc.embeddings, r.embedding)]),
                [ok |-> TRUE, s |-> s, embeddings |-> <<>>], batch),
        LAMBDA issued :
            Let(Arrivals(env, issued.embeddings), LAMBDA arrivals :
                [ok |-> issued.ok, s |-> issued.s, embeddings |-> PromiseAll(arrivals)]))

NumBatches(n, size) == CeilDiv(n, size)

Batch(xs, k, size) == SubSeq(xs, (k - 1) * size + 1, Min(k * size, Len(xs)))

\* a change of generateEmbeddings: a failed batch does not end the run
generateEmbeddingsLenient(s, env, chunks) ==
    FoldRange(LAMBDA acc, k :
                  Let(EmbedBatch(acc.s, env, Batch(chunks, k, EmbedBatchSize)), LAMBDA r :
                      [ok |-> TRUE, s |-> r.s, embeddings |-> acc.embeddings \o r.embeddings]),
              [ok |-> TRUE, s |-> s, embeddings |-> <<>>],
              1, NumBatches(Len(chunks), EmbedBatchSize))

generateEmbeddings(s, env, chunks) ==
    FoldRange(LAMBDA acc, k :
                  IF ~acc.ok THEN acc
                  ELSE Let(EmbedBatch(acc.s, env, Batch(chunks, k, EmbedBatchSize)),
                           LAMBDA r : [ok |-> r.ok, s |-> r.s,
                                       embeddings |-> acc.embeddings \o r.embeddings]),
              [ok |-> TRUE, s |-> s, embeddings |-> <<>>],
              1, NumBatches(Len(chunks), EmbedBatchSize))

\* a change of UpsertAll: a failed batch does not end the loop
UpsertAllLenient(s, env, vectors) ==
    FoldRange(LAMBDA acc, k :
                  Let(IndexUpsert(acc.s, env, Batch(vectors, k, UpsertBatchSize)),
                      LAMBDA r : [ok |-> acc.ok /\ r.ok, s |-> r.s]),
              [ok |-> TRUE, s |-> s],
              1, NumBatches(Len(vectors), UpsertBatchSize))

\* a change of UpsertAll: the failure of a batch ends the loop and is not
\* passed on
UpsertAllUnchecked(s, env, vectors) ==
    Let(FoldRange(LAMBDA acc, k :
                      IF ~acc.ok THEN acc
                      ELSE Let(IndexUpsert(acc.s, env, Batch(vectors, k, UpsertBatchSize)),
                               LAMBDA r : [ok |-> r.ok, s |-> r.s]),
                  [ok |-> TRUE, s |-> s],
                  1, NumBatches(Len(vectors), UpsertBatchSize)),
        LAMBDA ups : [ok |-> TRUE, s |-> ups.s])

\* the upsert loop of execute: it stops at the first batch that fails
UpsertAll(s, env, vectors) ==
    FoldRange(LAMBDA acc, k :
                  IF ~acc.ok THEN acc
                  ELSE Let(IndexUpsert(acc.s, env, Batch(vectors, k, UpsertBatchSize)),
                           LAMBDA r : [ok |-> r.ok, s |-> r.s]),
              [ok |-> TRUE, s |-> s],
              1, NumBatches(Len(vectors), UpsertBatchSize))

SumLen(chunks) == FoldSeq(LAMBDA acc, c : acc + Len(c), 0, chunks)

Round(a, b) == (2 * a + b) \div (2 * b)

\* DocumentIndexTool.execute
IndexExecute(s, env, params) ==
    LET content == Get(params, "content", <<>>)
        title == params.title
        category == Get(params, "category", "General")
        source == Get(params, "source", "Manual Input")
        filePath == Get(params, "filePath", "")
        options == Get(params, "options", DefaultIndexOptions)
        blank == [success |-> FALSE, chunksIndexed |-> 0, title |-> title,
                   category |-> category, source |-> source, metadata |-> << >>,
                   errors |-> <<>>, warnings |-> <<>>]
        useFile == filePath # "" /\ Len(content) = 0
        validate == Get(options, "validateContent", FALSE)
        extract == Get(options, "extractMetadata", FALSE)
        chunkSize == IF Get(options, "chunkSize", 0) = 0 THEN DefaultChunkSize
                     ELSE options.chunkSize
        chunkOverlap == IF Get(options, "chunkOverlap", 0) = 0 THEN DefaultChunkOverlap
                        ELSE options.chunkOverlap
    IN
    Let(processFile(env, filePath), LAMBDA fileResult :
    IF useFile /\ ~fileResult.success
    THEN [s |-> s, result |-> [blank EXCEPT !.errors = fileResult.errors]]
    ELSE
    Let(IF useFile THEN fileResult.content ELSE content, LAMBDA documentContent :
    Let(validateContent(documentContent, title), LAMBDA validation :
    LET meta1 == IF useFile THEN [fileInfo |-> fileResult.metadata] ELSE << >> IN
    IF validate /\ ~validation.isValid
    THEN [s |-> s,
          result |-> [blank EXCEPT !.errors = validation.errors,
                                    !.warnings = validation.warnings,
                                    !.metadata = meta1]]
    ELSE
    Let(IF extract THEN extractMetadata(documentContent, title) ELSE << >>, LAMBDA extracted :
    Let(IF extract THEN Spread(meta1, [extracted |-> extracted]) ELSE meta1, LAMBDA meta2 :
    Let(intelligentChunking(documentContent, chunkSize, chunkOverlap), LAMBDA chunks :
    IF Len(chunks) = 0
    THEN [s |-> s,
          result |-> [blank EXCEPT !.errors = << <<"No valid chunks created from content">> >>,
                                    !.metadata = meta2]]
    ELSE
    Let(generateEmbeddings(s, env, chunks), LAMBDA emb :
    IF ~emb.ok
    THEN [s |-> emb.s,
          result |-> [blank EXCEPT !.errors = << <<"Indexing failed", "Failed to create embedding">> >>,
                                    !.metadata = meta2]]
    ELSE
    Let([i \in 1..Len(chunks) |->
            [id |-> generateChunkId(env, title, i - 1),
             values |-> emb.embeddings[i],
             metadata |-> Spread([title |-> title, category |-> category,
                                  source |-> source, content |-> chunks[i],
                                  chunkIndex |-> i - 1,
                                  totalChunks |-> Len(chunks),
                                  timestamp |-> IsoNow(env),
                                  wordCount |-> Len(SplitWs(chunks[i]))],
                                 extracted)]],
        LAMBDA vectors :
    Let(UpsertAll(emb.s, env, vectors), LAMBDA ups :
    IF ~ups.ok
    THEN [s |-> ups.s,
          result |-> [blank EXCEPT !.errors = << <<"Indexing failed", "upsert">> >>,
                                    !.metadata = meta2]]
    ELSE [s |-> ups.s,
          result |-> [blank EXCEPT
              !.success = TRUE,
              !.chunksIndexed = Len(chunks),
              !.metadata = Spread(meta2,
                  [indexingStats |->
                      [totalVectors |-> Len(vectors),
                       averageChunkSize |-> Round(SumLen(chunks), Len(chunks)),
                       batchesProcessed |-> CeilDiv(Len(vectors), UpsertBatchSize)]])]]
    )))))))))


----------------------------------------------------------------------------
(* PineconeHelper *)

\* the parameters executeBatch hands to execute for one document
BatchParams(doc, options) ==
    Spread([k \in DOMAIN doc \ {"category", "source"} |-> doc[k]],
           [category |-> Get(doc, "category", "General"),
            source |-> Get(doc, "source", "Batch Import"),
            options |-> options])

\* one turn of executeBatch's loop; execute catches what is thrown inside it,
\* so the catch of the loop is never entered. The next document is taken
\* up after a delay, one tick later
BatchTurn(env, options, acc, doc, i) ==
    Let(IndexExecute(acc.s, [env EXCEPT !.now = @ + i - 1], BatchParams(doc, options)),
        LAMBDA out :
            LET r == acc.result IN
            [s |-> out.s,
             result |->
                 IF out.result.success
                 THEN [r EXCEPT !.results = Append(@, out.result),
                                !.successful = @ + 1]
                 ELSE [r EXCEPT !.results = Append(@, out.result),
                                !.failed = @ + 1,
                                !.errors = @ \o out.result.errors]])

\* a change of executeBatch: the loop is left after the first failed document
executeBatchAborting(s, env, params) ==
    Let(Get(params, "options", DefaultIndexOptions), LAMBDA options :
        FoldRange(LAMBDA acc, i :
                      IF acc.result.failed > 0 THEN acc
                      ELSE BatchTurn(env, options, acc, params.documents[i], i),
                  [s |-> s,
                   result |-> [total |-> Len(params.documents), successful |-> 0,
                               failed |-> 0, results |-> <<>>, errors |-> <<>>]],
                  1, Len(params.documents)))

\* DocumentIndexTool.executeBatch
executeBatch(s, env, params) ==
    Let(Get(params, "options", DefaultIndexOptions), LAMBDA options :
        FoldRange(LAMBDA acc, i : BatchTurn(env, options, acc, params.documents[i], i),
                  [s |-> s,
                   result |-> [total |-> Len(params.documents), successful |-> 0,
                               failed |-> 0, results |-> <<>>, errors |-> <<>>]],
                  1, Len(params.documents)))

Threw(s, msg) == [threw |-> TRUE, error |-> msg, data |-> << >>, s |-> s]

Returned(s, data) == [threw |-> FALSE, error |-> "", data |-> data, s |-> s]

\* a change of safeDelete: one id at a time, the first failure ends it
safeDeleteAborting(s, env, ids) ==
    IF env.api \in {"deleteMany", "delete"}
    THEN Let(IndexDelete(s, env, env.api, ids), LAMBDA r :
             IF r.ok THEN Returned(r.s, << >>) ELSE Threw(r.s, "Failed to delete vectors"))
    ELSE Let(FoldSeq(LAMBDA acc, id :
                         IF ~acc.ok THEN acc
                         ELSE Let(IndexDelete(acc.s, env, "delete1", <<id>>),
                                  LAMBDA r : [ok |-> r.ok, s |-> r.s]),
                     [ok |-> TRUE, s |-> s], ids),
             LAMBDA r : IF r.ok THEN Returned(r.s, << >>)
                        ELSE Threw(r.s, "Failed to delete vectors"))

\* safeDelete: deleteMany(ids) if the index has it, else delete({ids}), else
\* delete1([id]) one id at a time, a failure of one id being logged and skipped
safeDelete(s, env, ids) ==
    IF env.api \in {"deleteMany", "delete"}
    THEN Let(IndexDelete(s, env, env.api, ids), LAMBDA r :
             IF r.ok THEN Returned(r.s, << >>) ELSE Threw(r.s, "Failed to delete vectors"))
    ELSE Let(FoldSeq(LAMBDA acc, id : IndexDelete(acc, env, "delete1", <<id>>).s, s, ids),
             LAMBDA after : Returned(after, << >>))

\* safeUpdate: one index.update per entry, stopping at the first that fails
safeUpdate(s, env, updates) ==
    Let(FoldSeq(LAMBDA acc, u :
                    IF ~acc.ok THEN acc
                    ELSE Let(IndexUpdate(acc.s, env, u.id, u.metadata),
                             LAMBDA c : [ok |-> c.ok, s |-> c.s]),
                [ok |-> TRUE, s |-> s], updates),
        LAMBDA r : IF r.ok THEN Returned(r.s, << >>)
                   ELSE Threw(r.s, "Failed to update vectors"))

\* getIndexStats: a failure is logged and answered with a count of zero
getIndexStats(s, env) ==
    Let(IndexStats(s, env), LAMBDA r :
        [totalVectorCount |-> IF r.ok THEN r.totalVectorCount ELSE 0, s |-> r.s])

\* waitForIndexReady's ceiling and the pause between two polls, in seconds
MaxWaitTime == 300

PollInterval == 5

\* what the k-th describeIndexStats of a creation does: "fails", "count" (it
\* answers with a totalVectorCount) or "nocount" (it answers without one);
\* after the last entry of env.stats every call does as that entry
StatsOutcome(env, k) == env.stats[Min(k, Len(env.stats))]

\* stats.totalVectorCount !== undefined, for what PineconeHelper.getIndexStats
\* returns: the answer of the index, or { totalVectorCount: 0 } when the call
\* failed
CountDefined(outcome) == outcome \in {"fails", "count"}

\* PineconeHelper.waitForIndexReady; the calls take no time, the clock moves
\* with the pauses. st = [ready, calls, elapsed]
waitForIndexReady(env, issued) ==
    FoldRange(LAMBDA st, k :
                  IF st.ready \/ st.elapsed >= MaxWaitTime THEN st
                  ELSE Let(StatsOutcome(env, k), LAMBDA outcome :
                           [ready |-> CountDefined(outcome),
                            calls |-> Append(st.calls,
                                             [kind |-> "stats", arg |-> st.elapsed,
                                              ok |-> outcome # "fails"]),
                            elapsed |-> IF CountDefined(outcome) THEN st.elapsed
                                        ELSE st.elapsed + PollInterval]),
              [ready |-> FALSE, calls |-> issued, elapsed |-> 0],
              1, (MaxWaitTime \div PollInterval) + 1)

\* PineconeHelper.indexExists: a listIndexes that fails is answered with false
indexExists(env) == env.list = "ok" /\ env.exists

\* PineconeHelper.createIndexIfNotExists; createIndex fails when the index
\* exists or the service refuses
createIndexIfNotExists(s, env) ==
    LET listed == <<[kind |-> "list", arg |-> 0, ok |-> env.list = "ok"]>>
        created == env.create = "ok" /\ ~env.exists
        asked == Append(listed, [kind |-> "create", arg |-> 0, ok |-> created])
    IN  IF indexExists(env)
        THEN [s |-> [s EXCEPT !.calls = listed],
              result |-> [threw |-> FALSE, elapsed |-> 0]]
        ELSE IF ~created
        THEN [s |-> [s EXCEPT !.calls = asked],
              result |-> [threw |-> TRUE, elapsed |-> 0,
                          error |-> <<"Failed to create index", "createIndex">>]]
        ELSE Let(waitForIndexReady(env, asked), LAMBDA waited :
                 [s |-> [s EXCEPT !.calls = waited.calls],
                  result |-> IF waited.ready
                             THEN [threw |-> FALSE, elapsed |-> waited.elapsed]
                             ELSE [threw |-> TRUE, elapsed |-> waited.elapsed,
                                   error |-> <<"Failed to create index",
                                               "Index creation timeout">>]])

----------------------------------------------------------------------------
(* KnowledgeManagementTool *)

MaxTopK == 10000

SampleQueries == 10

CleanupSampleSize == 5000

EmptyChunkLength == 10

MinValidYear == 2000

\* keeps the first entry of each id
UniqueById(samples) ==
    FoldSeq(LAMBDA acc, m :
                IF m.id \in acc.seen THEN acc
                ELSE [seen |-> acc.seen \cup {m.id}, out |-> Append(acc.out, m)],
            [seen |-> {}, out |-> <<>>], samples).out

sampleVectors(s, env, sampleSize) ==
    LET queriesPerBatch == CeilDiv(sampleSize, SampleQueries) IN
    Let(FoldRange(LAMBDA acc, i :
                      IF ~acc.ok \/ Len(acc.samples) >= sampleSize THEN acc
                      ELSE Let(IndexQuery(acc.s, env, << >>, queriesPerBatch),
                               LAMBDA q : [ok |-> q.ok, s |-> q.s,
                                           samples |-> acc.samples \o q.matches]),
                  [ok |-> TRUE, s |-> s, samples |-> <<>>], 1, SampleQueries),
        LAMBDA r :
            IF ~r.ok THEN Threw(r.s, "query failed")
            ELSE Let(UniqueById(r.samples), LAMBDA unique :
                     Returned(r.s, SubSeq(unique, 1, Min(sampleSize, Len(unique))))))

\* a timestamp is [year, tick]; a text that is no date has year -1
isValidTimestamp(timestamp) == timestamp.year >= 0 /\ timestamp.year > MinValidYear

Content(m) == Get(m.metadata, "content", <<>>)

\* a change of Target: the title goes before the explicit list
TargetTitleFirst(options) ==
    IF Get(options, "title", <<>>) # <<>> THEN "title"
    ELSE IF Has(options, "chunkIds") THEN "chunkIds"
    ELSE IF Get(options, "category", "") # "" THEN "category"
    ELSE "none"

\* which of the three ways names the records to delete: the explicit list if
\* there is one, else the title, else the category
Target(options) ==
    IF Has(options, "chunkIds") THEN "chunkIds"
    ELSE IF Get(options, "title", <<>>) # <<>> THEN "title"
    ELSE IF Get(options, "category", "") # "" THEN "category"
    ELSE "none"

\* deleteDocument once the deletion is confirmed
deleteResolved(s, env, options) ==
    LET title == Get(options, "title", <<>>)
        category == Get(options, "category", "")
        target == Target(options)
        filter == IF target = "title" THEN [title |-> title] ELSE [category |-> category]
        byQuery == target \in {"title", "category"}
    IN
    IF target = "none"
    THEN Threw(s, "Either title, chunkIds, or category must be specified")
    ELSE
    Let(IF byQuery THEN IndexQuery(s, env, filter, MaxTopK)
        ELSE [ok |-> TRUE, matches |-> <<>>, s |-> s], LAMBDA q :
    IF ~q.ok THEN Threw(q.s, "query failed")
    ELSE
    Let(IF byQuery THEN Ids(q.matches) ELSE options.chunkIds, LAMBDA idsToDelete :
    IF Len(idsToDelete) = 0
    THEN Returned(q.s, [deletedCount |-> 0,
                        message |-> "No matching documents found to delete"])
    ELSE
    Let(safeDelete(q.s, env, idsToDelete), LAMBDA d :
    IF d.threw
    THEN Threw(d.s, d.error)
    ELSE Returned(d.s, [deletedCount |-> Len(idsToDelete),
                        deletedItems |-> IF title # <<>> THEN "document"
                                         ELSE IF category # "" THEN "category"
                                         ELSE "specified chunks"]))))

\* a change of deleteDocument: the confirmation is not asked for
deleteDocumentUnconfirmed(s, env, options) == deleteResolved(s, env, options)

deleteDocument(s, env, options) ==
    IF ~Get(options, "confirmDeletion", FALSE)
    THEN Threw(s, "Deletion requires explicit confirmation. Set confirmDeletion: true")
    ELSE deleteResolved(s, env, options)

\* a change of MetadataPatch: the chunk's own metadata is not carried over
MetadataPatchNewOnly(match, newMetadata, env) ==
    Spread(newMetadata, [lastUpdated |-> IsoNow(env)])

\* the metadata a metadata-only update writes on a chunk
MetadataPatch(match, newMetadata, env) ==
    Spread(Spread(match.metadata, newMetadata), [lastUpdated |-> IsoNow(env)])

\* what a replacing update hands to the indexing tool
ReindexRequest(options, matches) ==
    LET existingMetadata == IF Len(matches) > 0 THEN matches[1].metadata ELSE << >>
        finalMetadata == Spread(existingMetadata, Get(options, "newMetadata", << >>))
        finalCategory == Get(finalMetadata, "category", "")
        finalSource == Get(finalMetadata, "source", "")
    IN  [content |-> Get(options, "newContent", <<>>),
         title |-> Get(options, "title", <<>>),
         category |-> IF finalCategory = "" THEN "General" ELSE finalCategory,
         source |-> IF finalSource = "" THEN "Updated" ELSE finalSource,
         options |-> [chunkSize |-> DefaultChunkSize,
                      chunkOverlap |-> DefaultChunkOverlap,
                      extractMetadata |-> TRUE]]

\* updateDocument once the chunks of the title are found
updateFound(s, env, options, matches) ==
    LET newContent == Get(options, "newContent", <<>>)
        hasMetadata == Has(options, "newMetadata")
        newMetadata == Get(options, "newMetadata", << >>)
        operation == Get(options, "operation", "replace")
        chunkIds == Ids(matches)
        updates == [i \in 1..Len(matches) |->
                       [id |-> matches[i].id,
                        metadata |-> MetadataPatch(matches[i], newMetadata, env)]]
    IN
    IF operation = "metadata-only" /\ hasMetadata
    THEN Let(safeUpdate(s, env, updates), LAMBDA u :
             IF u.threw THEN Threw(u.s, u.error)
             ELSE Returned(u.s, [operation |-> "metadata-only",
                                 chunksUpdated |-> Len(updates),
                                 updatedFields |-> DOMAIN newMetadata]))
    ELSE IF Len(newContent) > 0
    THEN Let(safeDelete(s, env, chunkIds), LAMBDA d :
             IF d.threw THEN Threw(d.s, d.error)
             ELSE
             Let(IndexExecute(d.s, env, ReindexRequest(options, matches)),
                 LAMBDA indexResult :
                     Returned(indexResult.s,
                              [operation |-> operation,
                               oldChunksDeleted |-> Len(chunkIds),
                               newChunksCreated |-> indexResult.result.chunksIndexed,
                               success |-> indexResult.result.success])))
    ELSE Threw(s, "Either newContent or newMetadata must be provided")

\* a change of updateDocument: a title without chunks is not turned down
updateDocumentUnchecked(s, env, options) ==
    Let(IndexQuery(s, env, [title |-> Get(options, "title", <<>>)], MaxTopK),
        LAMBDA existingChunks :
            IF ~existingChunks.ok THEN Threw(existingChunks.s, "query failed")
            ELSE updateFound(existingChunks.s, env, options, existingChunks.matches))

updateDocument(s, env, options) ==
    Let(IndexQuery(s, env, [title |-> Get(options, "title", <<>>)], MaxTopK),
        LAMBDA existingChunks :
            IF ~existingChunks.ok THEN Threw(existingChunks.s, "query failed")
            ELSE IF Len(existingChunks.matches) = 0
            THEN Threw(existingChunks.s, "Document not found")
            ELSE updateFound(existingChunks.s, env, options, existingChunks.matches))

\* the records of the sample that repeat the content hash of an earlier one
Duplicates(vectors) ==
    FoldSeq(LAMBDA acc, v :
                IF Len(Content(v)) = 0 THEN acc
                ELSE Let(hashContent(Content(v)), LAMBDA hash :
                         IF hash \in acc.contentHashes
                         THEN [acc EXCEPT !.duplicates = Append(@, v.id)]
                         ELSE [acc EXCEPT !.contentHashes = @ \cup {hash}]),
            [contentHashes |-> {}, duplicates |-> <<>>], vectors).duplicates

IsEmptyChunk(v) == Len(Content(v)) = 0 \/ Len(Trim(Content(v))) < EmptyChunkLength

NeedsTimestamp(v) ==
    ~Has(v.metadata, "timestamp") \/ ~isValidTimestamp(v.metadata.timestamp)

\* the body of cleanupKnowledgeBase: its three passes run over one sample taken at the
\* start; an exception in any of them ends the run with what was counted so far
cleanupPasses(s, env, removeDuplicates, removeEmptyChunks, updateTimestamps, dryRun) ==
    LET cleanup == [duplicatesFound |-> 0, duplicatesRemoved |-> 0,
                    emptyChunksFound |-> 0, emptyChunksRemoved |-> 0,
                    timestampsUpdated |-> 0, errors |-> <<>>]
        Failed(c, msg) == [c EXCEPT !.errors = << <<"Cleanup failed", msg>> >>]
    IN
    Let(sampleVectors(s, env, CleanupSampleSize), LAMBDA sample :
    IF sample.threw THEN Returned(sample.s, Failed(cleanup, sample.error))
    ELSE
    \* pass 1
    Let(Ids(Filter(sample.data, IsEmptyChunk)), LAMBDA emptyIds :
    Let(IF removeEmptyChunks /\ ~dryRun /\ Len(emptyIds) > 0
        THEN safeDelete(sample.s, env, emptyIds)
        ELSE Returned(sample.s, << >>), LAMBDA d1 :
    Let(IF ~removeEmptyChunks THEN cleanup
        ELSE [cleanup EXCEPT !.emptyChunksFound = Len(emptyIds),
                             !.emptyChunksRemoved =
                                 IF ~dryRun /\ ~d1.threw THEN Len(emptyIds) ELSE 0],
        LAMBDA c1 :
    IF d1.threw THEN Returned(d1.s, Failed(c1, d1.error))
    ELSE
    \* pass 2
    Let(Duplicates(sample.data), LAMBDA duplicates :
    Let(IF removeDuplicates /\ ~dryRun /\ Len(duplicates) > 0
        THEN safeDelete(d1.s, env, duplicates)
        ELSE Returned(d1.s, << >>), LAMBDA d2 :
    Let(IF ~removeDuplicates THEN c1
        ELSE [c1 EXCEPT !.duplicatesFound = Len(duplicates),
                        !.duplicatesRemoved =
                            IF ~dryRun /\ ~d2.threw THEN Len(duplicates) ELSE 0],
        LAMBDA c2 :
    IF d2.threw THEN Returned(d2.s, Failed(c2, d2.error))
    ELSE
    \* pass 3
    Let(Filter(sample.data, NeedsTimestamp), LAMBDA stale :
    Let(IF updateTimestamps /\ ~dryRun /\ Len(stale) > 0
        THEN safeUpdate(d2.s, env,
                 [i \in 1..Len(stale) |->
                     [id |-> stale[i].id,
                      metadata |-> Spread(stale[i].metadata,
                                          [timestamp |-> IsoNow(env),
                                           cleanupUpdated |-> TRUE])]])
        ELSE Returned(d2.s, << >>), LAMBDA u3 :
    Let(IF ~updateTimestamps THEN c2
        ELSE [c2 EXCEPT !.timestampsUpdated = Len(stale)], LAMBDA c3 :
    IF u3.threw THEN Returned(u3.s, Failed(c3, u3.error))
    ELSE Returned(u3.s, c3)))))))))))

\* a change of cleanupKnowledgeBase: a dry run writes like any other run
cleanupIgnoringDryRun(s, env, options) ==
    cleanupPasses(s, env, Get(options, "removeDuplicates", TRUE),
                  Get(options, "removeEmptyChunks", TRUE),
                  Get(options, "updateTimestamps", FALSE), FALSE)

cleanupKnowledgeBase(s, env, options) ==
    cleanupPasses(s, env, Get(options, "removeDuplicates", TRUE),
                  Get(options, "removeEmptyChunks", TRUE),
                  Get(options, "updateTimestamps", FALSE),
                  Get(options, "dryRun", FALSE))

StatsSampleSize == 1000

CategoriesSampleSize == 2000

DefaultListLimit == 50

DefaultMetadataLimit == 100

\* metadata.<field> || 'Unknown'
Label(m, field) ==
    IF Get(m.metadata, field, "") = "" THEN "Unknown" ELSE m.metadata[field]

CountWhere(xs, P(_)) == Len(Filter(xs, P))

getKnowledgeBaseStats(s, env, options) ==
    Let(getIndexStats(s, env), LAMBDA indexStats :
    LET totalVectors == indexStats.totalVectorCount
        stats == [totalVectors |-> totalVectors, categories |-> << >>, sources |-> << >>,
                  sizingInfo |-> [averageChunkSize |-> 0, totalContent |-> 0],
                  lastUpdated |-> IsoNow(env)]
    IN
    IF totalVectors = 0 THEN Returned(indexStats.s, stats)
    ELSE
    Let(sampleVectors(indexStats.s, env, Min(StatsSampleSize, totalVectors)), LAMBDA sample :
    IF sample.threw THEN Threw(sample.s, sample.error)
    ELSE
    LET vectors == sample.data
        n == Len(vectors)
        Scaled(count) == Round(count * totalVectors, n)
    IN
    Let(FoldSeq(LAMBDA acc, v : acc + Len(Content(v)), 0, vectors), LAMBDA totalContent :
        Returned(sample.s,
            [stats EXCEPT
                !.categories =
                    [c \in {Label(vectors[i], "category") : i \in 1..n} |->
                        Scaled(CountWhere(vectors, LAMBDA v : Label(v, "category") = c))],
                !.sources =
                    [c \in {Label(vectors[i], "source") : i \in 1..n} |->
                        Scaled(CountWhere(vectors, LAMBDA v : Label(v, "source") = c))],
                !.sizingInfo = [averageChunkSize |-> Round(totalContent, n),
                                totalContent |-> totalContent]]))))

\* the time value of a timestamp; none (NaN) for an absent or unparsable one
HasTime(doc) == doc.timestamp.year >= 0

TimeOf(doc) == doc.timestamp.year * 1000 + doc.timestamp.tick

NoDate == [year |-> -1, tick |-> 0]

\* the documents of a query answer: one per title, in order of first match
GroupByTitle(matches) ==
    FoldSeq(LAMBDA docs, m :
                LET title == Get(m.metadata, "title", <<>>)
                    at == {i \in 1..Len(docs) : docs[i].title = title}
                IN  IF at = {}
                    THEN Append(docs, [title |-> title,
                                       category |-> Label(m, "category"),
                                       source |-> Label(m, "source"),
                                       timestamp |-> Get(m.metadata, "timestamp", NoDate),
                                       totalChunks |-> Get(m.metadata, "totalChunks", 1),
                                       wordCount |-> Get(m.metadata, "wordCount", 0),
                                       chunkIds |-> <<m.id>>])
                    ELSE [docs EXCEPT ![CHOOSE i \in at : TRUE] =
                              [@ EXCEPT !.chunkIds = Append(@, m.id),
                                        !.wordCount = @ + Get(m.metadata, "wordCount", 0)]],
            <<>>, matches)

\* a stable sort: x goes before the first element it must precede
SortBy(xs, Before(_, _)) ==
    FoldSeq(LAMBDA acc, x :
                Let({i \in 1..Len(acc) : Before(x, acc[i])}, LAMBDA later :
                    LET at == IF later = {} THEN Len(acc) + 1
                              ELSE CHOOSE i \in later : \A j \in later : i <= j
                    IN  SubSeq(acc, 1, at - 1) \o <<x>> \o SubSeq(acc, at, Len(acc))),
            <<>>, xs)

\* listDocuments, sorted by timestamp (the order by title or category compares
\* texts by locale and is not modelled)
listDocuments(s, env, options) ==
    LET limit == Get(options, "limit", DefaultListLimit)
        category == Get(options, "category", "")
        source == Get(options, "source", "")
        sortOrder == Get(options, "sortOrder", "desc")
        filter == Spread(IF category # "" THEN [category |-> category] ELSE << >>,
                         IF source # "" THEN [source |-> source] ELSE << >>)
    IN
    Let(IndexQuery(s, env, filter, Min(limit, MaxTopK)), LAMBDA queryResult :
    IF ~queryResult.ok THEN Threw(queryResult.s, "query failed")
    ELSE
    Let(SortBy(GroupByTitle(queryResult.matches),
               LAMBDA a, b : /\ HasTime(a) /\ HasTime(b)
                             /\ IF sortOrder = "desc" THEN TimeOf(a) > TimeOf(b)
                                ELSE TimeOf(a) < TimeOf(b)),
        LAMBDA documents :
            Returned(queryResult.s,
                [documents |-> SubSeq(documents, 1, Min(limit, Len(documents))),
                 totalFound |-> Len(documents),
                 hasMore |-> Len(documents) > limit])))

getCategories(s, env, options) ==
    Let(sampleVectors(s, env, CategoriesSampleSize), LAMBDA sample :
    IF sample.threw THEN Threw(sample.s, sample.error)
    ELSE
    LET vectors == sample.data
        n == Len(vectors)
    IN
    Let(UniqueById([i \in 1..n |-> [id |-> Label(vectors[i], "category")]]), LAMBDA names :
    Let(getIndexStats(sample.s, env), LAMBDA indexStats :
    LET totalVectors == indexStats.totalVectorCount
        Estimated(count) == IF n > 0 THEN Round(count * totalVectors, n) ELSE count
    IN
    Let([i \in 1..Len(names) |->
            Let(Filter(vectors, LAMBDA v : Label(v, "category") = names[i].id), LAMBDA mine :
                [name |-> names[i].id, count |-> Len(mine),
                 sources |-> {mine[j].metadata.source :
                                 j \in {k \in 1..Len(mine) :
                                           Get(mine[k].metadata, "source", "") # ""}},
                 estimatedTotal |-> Estimated(Len(mine))])],
        LAMBDA categories :
            Returned(indexStats.s,
                [categories |-> SortBy(categories,
                                       LAMBDA a, b : a.estimatedTotal > b.estimatedTotal),
                 totalCategories |-> Len(categories),
                 sampledFrom |-> n,
                 totalVectors |-> totalVectors])))))

searchByMetadata(s, env, options) ==
    LET filters == Get(options, "filters", << >>)
        limit == Get(options, "limit", DefaultMetadataLimit)
        includeContent == Get(options, "includeContent", FALSE)
    IN
    Let(IndexQuery(s, env, filters, Min(limit, MaxTopK)), LAMBDA results :
    IF ~results.ok THEN Threw(results.s, "query failed")
    ELSE
    LET processedResults ==
            [i \in 1..Len(results.matches) |->
                IF includeContent
                THEN Spread(results.matches[i], [content |-> Content(results.matches[i])])
                ELSE results.matches[i]]
    IN  Returned(results.s,
            [results |-> processedResults,
             totalFound |-> Len(processedResults),
             filters |-> filters,
             hasMore |-> Len(processedResults) >= limit]))

Operations ==
    {"stats", "list", "update", "delete", "cleanup", "categories", "search-by-metadata"}

Handler(s, env, operation, options) ==
    CASE operation = "stats" -> getKnowledgeBaseStats(s, env, options)
      [] operation = "list" -> listDocuments(s, env, options)
      [] operation = "update" -> updateDocument(s, env, options)
      [] operation = "delete" -> deleteDocument(s, env, options)
      [] operation = "cleanup" -> cleanupKnowledgeBase(s, env, options)
      [] operation = "categories" -> getCategories(s, env, options)
      [] operation = "search-by-metadata" -> searchByMetadata(s, env, options)

\* a change of execute: a tag it does not know is taken for 'stats'
ManagementExecuteLenient(s, env, operation, options) ==
    Let(Handler(s, env, IF operation \in Operations THEN operation ELSE "stats", options),
        LAMBDA h :
            [s |-> h.s,
             result |-> [operation |-> operation, success |-> ~h.threw,
                         data |-> IF h.threw THEN << >> ELSE h.data,
                         errors |-> IF h.threw THEN << <<"Operation failed", h.error>> >>
                                    ELSE <<>>]])

\* KnowledgeManagementTool.execute
ManagementExecute(s, env, operation, options) ==
    LET blank == [operation |-> operation, success |-> FALSE, data |-> << >>,
                  errors |-> <<>>]
    IN  IF operation \notin Operations
        THEN [s |-> s,
              result |-> [blank EXCEPT !.errors = << <<"Unknown operation", operation>> >>]]
        ELSE Let(Handler(s, env, operation, options), LAMBDA h :
                 IF h.threw
                 THEN [s |-> h.s,
                       result |-> [blank EXCEPT
                                      !.errors = << <<"Operation failed", h.error>> >>]]
                 ELSE [s |-> h.s,
                       result |-> [blank EXCEPT !.success = TRUE, !.data = h.data]])

----------------------------------------------------------------------------
(* KnowledgeSearchTool *)

SearchTopKCap == 20

DefaultTopK == 5

DefaultThreshold == 70

getRelevanceLevel(score) ==
    IF score >= 90 THEN "high"
    ELSE IF score >= 80 THEN "medium"
    ELSE IF score >= 70 THEN "low"
    ELSE "minimal"

\* a change of AboveThreshold: the comparison is turned round
BelowThreshold(matches, threshold) ==
    Filter(matches, LAMBDA match : match.score <= threshold)

\* the matches a search keeps
AboveThreshold(matches, threshold) ==
    Filter(matches, LAMBDA match : match.score >= threshold)

\* a change of QueryTopK: the caller's topK goes to the index as it is
QueryTopKUncapped(topK) == topK

\* the topK of the query a search issues: Math.min(topK, 20)
QueryTopK(topK) == Min(topK, SearchTopKCap)

\* 'Unknown'
UnknownText == <<85, 110, 107, 110, 111, 119, 110>>

\* what a search that found nothing suggests
NoResultSuggestions ==
    <<"Try using different keywords or synonyms",
      "Consider broadening your search terms",
      "Check if the information exists in the knowledge base">>

\* what a search that failed returns
SearchFailure ==
    [results |-> <<>>, totalFound |-> 0,
     error |-> [type |-> "search_error"],
     suggestions |-> <<"Check if the knowledge base is properly initialized",
                       "Verify API keys and connection settings",
                       "Try a simpler search query">>]

\* a change of SearchAnswer: a search that found nothing has failed
SearchAnswerOrFailure(base) ==
    IF Len(base.results) = 0 THEN SearchFailure
    ELSE Spread(base, [insights |-> << >>])

\* the result of a search that was answered, with its suggestions or insights
SearchAnswer(base) ==
    Let(base.results, LAMBDA filteredResults :
        IF Len(filteredResults) = 0
        THEN Spread(base, [suggestions |-> NoResultSuggestions])
        ELSE Spread(base,
                 [insights |->
                     [highRelevance |->
                          CountWhere(filteredResults, LAMBDA r : r.score >= 90),
                      mediumRelevance |->
                          CountWhere(filteredResults,
                                     LAMBDA r : r.score >= 80 /\ r.score < 90),
                      lowRelevance |->
                          CountWhere(filteredResults, LAMBDA r : r.score < 80),
                      categories |->
                          {filteredResults[i].category :
                              i \in 1..Len(filteredResults)}]]))

\* KnowledgeSearchTool.execute; scores and thresholds in hundredths. A
\* timestamp that is missing is the text 'Unknown', which is no date: NoDate
SearchExecute(s, env, params) ==
    LET topK == Get(params, "topK", DefaultTopK)
        category == Get(params, "category", "")
        threshold == Get(params, "threshold", DefaultThreshold)
        filter == IF category # "" THEN [category |-> category] ELSE << >>
    IN
    Let(createEmbedding(s, env, params.query), LAMBDA queryEmbedding :
    IF ~queryEmbedding.ok THEN [s |-> queryEmbedding.s, result |-> SearchFailure]
    ELSE
    Let(IndexQuery(queryEmbedding.s, env, filter, QueryTopK(topK)),
        LAMBDA searchResults :
    IF ~searchResults.ok THEN [s |-> searchResults.s, result |-> SearchFailure]
    ELSE
    Let(AboveThreshold(searchResults.matches, threshold), LAMBDA kept :
    Let([i \in 1..Len(kept) |->
            [id |-> kept[i].id, score |-> kept[i].score,
             content |-> Content(kept[i]),
             title |-> IF Get(kept[i].metadata, "title", <<>>) = <<>> THEN UnknownText
                       ELSE kept[i].metadata.title,
             category |-> IF Get(kept[i].metadata, "category", "") = "" THEN "General"
                          ELSE kept[i].metadata.category,
             source |-> Label(kept[i], "source"),
             timestamp |-> Get(kept[i].metadata, "timestamp", NoDate),
             chunkIndex |-> Get(kept[i].metadata, "chunkIndex", 0),
             relevanceLevel |-> getRelevanceLevel(kept[i].score)]],
        LAMBDA filteredResults :
    [s |-> searchResults.s,
     result |-> SearchAnswer([results |-> filteredResults,
                              totalFound |-> Len(filteredResults),
                              query |-> params.query,
                              searchParams |-> [topK |-> topK, category |-> category,
                                                threshold |-> threshold]])]))))

\* the words extractKeywords leaves out
StopWords ==
    {<<116, 104, 101>>, <<97, 110, 100>>, <<111, 114>>, <<98, 117, 116>>,
     <<105, 110>>, <<111, 110>>, <<97, 116>>, <<116, 111>>,
     <<102, 111, 114>>, <<111, 102>>, <<119, 105, 116, 104>>, <<98, 121>>,
     <<102, 114, 111, 109>>, <<97, 115>>, <<105, 115>>, <<119, 97, 115>>,
     <<97, 114, 101>>, <<119, 101, 114, 101>>, <<98, 101>>,
     <<98, 101, 101, 110>>, <<98, 101, 105, 110, 103>>,
     <<104, 97, 118, 101>>, <<104, 97, 115>>, <<104, 97, 100>>, <<100, 111>>,
     <<100, 111, 101, 115>>, <<100, 105, 100>>, <<119, 105, 108, 108>>,
     <<119, 111, 117, 108, 100>>, <<99, 111, 117, 108, 100>>,
     <<115, 104, 111, 117, 108, 100>>, <<109, 97, 121>>,
     <<109, 105, 103, 104, 116>>, <<109, 117, 115, 116>>, <<99, 97, 110>>,
     <<115, 104, 97, 108, 108>>}

\* KnowledgeSearchTool.extractKeywords
extractKeywords(query) ==
    Filter(SplitWs(ToLower(query)), LAMBDA word : Len(word) > 2 /\ word \notin StopWords)

\* KnowledgeSearchTool.searchByKeywords: what execute returns for the keywords
searchByKeywords(s, env, keywords, topK, category) ==
    SearchExecute(s, env, Spread([query |-> Join(keywords, SP), topK |-> topK],
                                 IF category # "" THEN [category |-> category] ELSE << >>))

ContentPrefixLength == 100

\* KnowledgeSearchTool.hashContent: the start of the normalised content
ContentPrefix(content) ==
    Let(Trim(CollapseWs(ToLower(content))), LAMBDA normalized :
        SubSeq(normalized, 1, Min(ContentPrefixLength, Len(normalized))))

\* KnowledgeSearchTool.deduplicateResults
deduplicateResults(results) ==
    FoldSeq(LAMBDA st, hit :
                Let(ContentPrefix(hit.content), LAMBDA contentHash :
                    IF contentHash \in st.seen THEN st
                    ELSE [seen |-> st.seen \cup {contentHash},
                          unique |-> Append(st.unique, hit)]),
            [seen |-> {}, unique |-> <<>>], results).unique

\* a character of the class \w
IsWordChar(c) == c \in (48..57) \cup (65..90) \cup (97..122) \cup {95}

\* text.match(/\b\w+\b/g) || []: the runs of word characters
WordRuns(text) ==
    Let(FoldRange(LAMBDA st, i :
                      IF IsWordChar(text[i])
                      THEN [pieces |-> st.pieces, acc |-> Append(st.acc, text[i])]
                      ELSE IF st.acc = <<>> THEN st
                      ELSE [pieces |-> ClosePiece(st), acc |-> <<>>],
                  [pieces |-> <<>>, acc |-> <<>>], 1, Len(text)),
        LAMBDA st : IF st.acc = <<>> THEN st.pieces ELSE ClosePiece(st))

RecentDays == 30

\* KnowledgeSearchTool.getDaysSince(timestamp) < 30; the days since a text
\* that is no date are NaN, which is not below 30. The model's dates have a
\* year and a tick within it, and years of 365 days
UpdatedRecently(timestamp) ==
    /\ timestamp.year >= 0
    /\ 365 * (ThisYear - timestamp.year) < RecentDays

\* source.includes('official'), for the source labels of the model
OfficialSource(source) == source \in {"official", "official site"}

MatchBoost == 10

RecentBoost == 5

OfficialBoost == 5

MaxRerankScore == 100

\* KnowledgeSearchTool.calculateRerankScore, in hundredths
calculateRerankScore(hit, query) ==
    Let(ToLower(hit.content), LAMBDA contentLower :
        LET exactMatches == CountWhere(WordRuns(ToLower(query)),
                                       LAMBDA word : Includes(contentLower, word))
            score == hit.score + exactMatches * MatchBoost
                     + (IF UpdatedRecently(hit.timestamp) THEN RecentBoost ELSE 0)
                     + (IF OfficialSource(hit.source) THEN OfficialBoost ELSE 0)
        IN  Min(score, MaxRerankScore))

\* KnowledgeSearchTool.rerankResults; the sort is stable
rerankResults(results, originalQuery) ==
    SortBy([i \in 1..Len(results) |->
               Spread(results[i],
                      [rerankScore |-> calculateRerankScore(results[i], originalQuery)])],
           LAMBDA a, b : a.rerankScore > b.rerankScore)

DefaultAdvancedTopK == 10

\* the combined list of executeAdvanced and what is said about it
Combined(semantic, keyword, strategies, query, topK) ==
    Let(deduplicateResults(semantic \o keyword), LAMBDA uniqueResults :
        Let(rerankResults(uniqueResults, query), LAMBDA ranked :
            Let(SubSeq(ranked, 1, Min(topK, Len(ranked))), LAMBDA combined :
                [threw |-> FALSE, semantic |-> semantic, keyword |-> keyword,
                 combined |-> combined,
                 metadata |-> [strategiesUsed |-> strategies,
                               totalUnique |-> Len(uniqueResults),
                               finalCount |-> Len(combined)]])))

\* KnowledgeSearchTool.executeAdvanced; metadata.searchComplexity is left out.
\* results.keyword is assigned what searchByKeywords returns, the result object
\* of execute and not its results: spreading it into allResults throws a
\* TypeError, which the catch throws on as 'Advanced search failed'
executeAdvanced(s, env, params) ==
    LET query == params.query
        searchStrategies == Get(params, "searchStrategies", <<"semantic", "keyword">>)
        topK == Get(params, "topK", DefaultAdvancedTopK)
        category == Get(params, "category", "")
        plain == Spread([query |-> query, topK |-> topK],
                        IF category # "" THEN [category |-> category] ELSE << >>)
    IN
    Let(IF "semantic" \in Range(searchStrategies) THEN SearchExecute(s, env, plain)
        ELSE [s |-> s, result |-> [results |-> <<>>]],
        LAMBDA semanticResults :
    IF "keyword" \in Range(searchStrategies)
    THEN Let(searchByKeywords(semanticResults.s, env, extractKeywords(query), topK, category),
             LAMBDA keywordResults :
                 [s |-> keywordResults.s,
                  result |-> [threw |-> TRUE,
                              error |-> <<"Advanced search failed", "TypeError">>]])
    ELSE [s |-> semanticResults.s,
          result |-> Combined(semanticResults.result.results, <<>>, searchStrategies,
                              query, topK)])

----------------------------------------------------------------------------
(* The inputs of the model *)

TitleA == <<65>>    \* 'A'

TitleB == <<66>>    \* 'B'

TitleC == <<67>>    \* 'C'

TitleE == <<69>>    \* 'E'

TitleF == <<70>>    \* 'F'

TitleZ == <<90>>    \* 'Z'

TwoParagraphs == <<65, 108, 112, 104, 97, 32, 98, 101, 116, 97, 32, 103, 97, 109, 109, 97, 46, 10, 10, 68, 101, 108, 116, 97, 32, 101, 112, 115, 105, 108, 111, 110, 32, 122, 101, 116, 97, 46>>    \* 'Alpha beta gamma.\n\nDelta epsilon zeta.'

Greeting == <<71, 114, 97, 99, 101, 32, 97, 110, 100, 32, 112, 101, 97, 99, 101, 46>>    \* 'Grace and peace.'

ShortText == <<97, 32, 98>>    \* 'a b'

SpacedText == <<97, 32, 32, 32, 32, 32, 32, 32, 32, 98>>    \* 'a        b'

Blank == <<32, 32, 32>>    \* '   '

BlankLines == <<32, 10, 10, 9, 10>>    \* ' \n\n\t\n'

Sensitive == <<84, 104, 101, 32, 97, 112, 105, 95, 107, 101, 121, 32, 97, 110, 100, 32, 116, 104, 101, 32, 112, 97, 115, 115, 119, 111, 114, 100, 32, 97, 114, 101, 32, 107, 101, 112, 116, 32, 105, 110, 32, 97, 32, 115, 101, 99, 114, 101, 116, 32, 116, 111, 107, 101, 110, 32, 115, 116, 111, 114, 101, 46>>    \* 'The api_key and the password are kept in a secret token store.'

Question == <<112, 101, 97, 99, 101>>    \* 'peace'

\* the file system
Files ==
    [p \in {"notes.txt", "data.json", "tool.exe", "broken.pdf", "blank.md"} |->
        CASE p = "notes.txt" -> [ext |-> ".txt", text |-> Greeting, broken |-> FALSE]
          [] p = "data.json" -> [ext |-> ".json", text |-> << <<TitleA, ShortText>> >>,
                                 broken |-> FALSE]
          [] p = "tool.exe" -> [ext |-> ".exe", text |-> Greeting, broken |-> FALSE]
          [] p = "blank.md" -> [ext |-> ".md", text |-> BlankLines, broken |-> FALSE]
          [] p = "broken.pdf" -> [ext |-> ".pdf", text |-> <<>>, broken |-> TRUE]]

Apis == {"deleteMany", "delete", "delete1"}

\* the orders in which the concurrent calls of a batch may complete
Completions == {"fwd", "rev"}

Orders == {<<"fwd">>, <<"rev">>}

FlatScores == <<0>>

\* the scores and the order of ties the index may answer a search with
Rankings ==
    {[sc |-> <<95, 85, 75, 60>>, ord |-> <<"fwd">>],
     [sc |-> <<60, 75, 85, 95>>, ord |-> <<"fwd">>],
     [sc |-> <<85, 70>>, ord |-> <<"rev">>],
     [sc |-> <<60>>, ord |-> <<"fwd">>]}

\* the i-th call of one kind fails; limits[k] is the largest number of calls of
\* kind k the operation can issue
FaultPlans(limits) ==
    UNION {{[NoFault EXCEPT ![k] = i] : i \in 1..Min(limits[k], MaxFault)} :
              k \in DOMAIN limits}

Many == 1000

\* what an operation does not control: no failure and any order of answers,
\* or one failure
Worlds(limits) ==
    {[f |-> NoFault, ord |-> o] : o \in Orders}
    \cup {[f |-> f, ord |-> <<"fwd">>] : f \in FaultPlans(limits)}

Env(f, ord, sc, a, now) ==
    [f |-> f, ord |-> ord, sc |-> sc, api |-> a, now |-> now, files |-> Files]

DocA == [title |-> TitleA, content |-> TwoParagraphs, category |-> "Faith",
         source |-> "Sermon", options |-> [chunkSize |-> 20, validateContent |-> TRUE]]

DocB == [title |-> TitleB, content |-> Greeting, category |-> "Prayer"]

DocC == [title |-> TitleC, content |-> Greeting, category |-> "Faith"]

DocE == [title |-> TitleE, content |-> ShortText]

DocF == [title |-> TitleF, content |-> SpacedText, category |-> "Faith"]

\* the index after these documents are ingested one after the other
Ingested(docs) ==
    FoldRange(LAMBDA st, i :
                  Let(docs[i], LAMBDA doc :
                      IndexExecute(Start(st),
                                   Env(NoFault, <<"fwd">>, FlatScores, "deleteMany", i),
                                   doc).s.store),
              <<>>, 1, Len(docs))

SeedStores == {Ingested(<<DocA, DocB, DocC>>), Ingested(<<DocE, DocF>>)}

\* the seed documents were ingested at the ticks before this one
SeedClock == 3 + 1

IngestRequests ==
    {DocA, DocB, DocE,
     [title |-> <<>>, content |-> Greeting],
     [title |-> TitleZ, content |-> Blank],
     [title |-> TitleZ, content |-> Sensitive, options |-> [validateContent |-> TRUE,
                                                          extractMetadata |-> TRUE]],
     [title |-> TitleZ, content |-> Blank, options |-> [chunkSize |-> 20]],
     [title |-> TitleZ, filePath |-> "notes.txt"],
     [title |-> TitleZ, filePath |-> "data.json"],
     [title |-> TitleZ, filePath |-> "tool.exe"],
     [title |-> TitleZ, filePath |-> "broken.pdf"],
     [title |-> TitleZ, filePath |-> "missing.md"],
     [title |-> TitleZ],
     [title |-> TitleZ, content |-> BlankLines, options |-> [extractMetadata |-> TRUE]],
     [title |-> TitleZ, filePath |-> "blank.md", options |-> [chunkSize |-> 20]],
     [title |-> TitleZ, filePath |-> "blank.md"]}


\* the documents of a batch: two that can be indexed, one with nothing in it,
\* one whose file is missing
BatchDocuments ==
    {[title |-> TitleB, content |-> Greeting, category |-> "Prayer"],
     [title |-> TitleE, content |-> ShortText, source |-> "Sermon"],
     [title |-> TitleZ, content |-> Blank],
     [title |-> TitleC, filePath |-> "missing.md"]}

\* every batch of at most two documents, and the batches of three documents
\* that begin with one that fails
Batches ==
    {<<>>}
    \cup {<<d>> : d \in BatchDocuments}
    \cup {<<d, e>> : d, e \in BatchDocuments}
    \cup {<<[title |-> TitleZ, content |-> Blank], d, e>> : d, e \in BatchDocuments}

BatchRequests ==
    {[documents |-> b] : b \in Batches}
    \cup {[documents |-> b, options |-> [chunkSize |-> 20]] : b \in Batches}

\* 'Alpha beta gamma. Delta epsilon zeta.'
TwoSentences == SubSeq(TwoParagraphs, 1, 17) \o SP \o SubSeq(TwoParagraphs, 20, 38)

ThreeParagraphs == <<97, 98, 32, 99, 100, 10, 10, 101, 102, 103, 104, 105, 10, 10, 106, 107>>    \* 'ab cd\n\nefghi\n\njk'

\* a paragraph of n characters: words of four letters, one space between them
WordsOfFour(n) ==
    [i \in 1..n |-> IF i % 5 = 0 /\ i < n THEN 32 ELSE 97 + ((i \div 5) % 26)]

\* two paragraphs of 800 and 400 characters
LongTwoParagraphs == WordsOfFour(800) \o NLNL \o WordsOfFour(400)

\* texts, chunk sizes and overlaps for the chunking, small enough for every
\* branch of it to be taken, and the two long paragraphs at the default sizes
ChunkRequests ==
    {[content |-> c, chunkSize |-> size, overlap |-> o] :
        c \in {TwoParagraphs, TwoSentences, ThreeParagraphs, ShortText, Greeting},
        size \in {5, 17, 20, 40},
        o \in {0, 5, 10, 20}}
    \cup {[content |-> LongTwoParagraphs, chunkSize |-> DefaultChunkSize,
           overlap |-> DefaultChunkOverlap]}

\* 'Grace  and\tPEACE.': the greeting in other letters and spaces
DocO == [title |-> TitleF,
         content |-> <<71, 114, 97, 99, 101, 32, 32, 97, 110, 100, 9, 80, 69, 65, 67, 69, 46>>,
         category |-> "Faith", source |-> "official site"]

\* the index with every second record stamped a year ago
AYearAgo(st) ==
    [i \in 1..Len(st) |->
        IF i % 2 = 0
        THEN [st[i] EXCEPT !.metadata.timestamp = [year |-> ThisYear - 1, tick |-> i]]
        ELSE st[i]]

AdvancedStores ==
    {Ingested(<<DocA, DocB, DocO, DocE>>), AYearAgo(Ingested(<<DocO, DocB, DocF, DocA>>))}

\* 'The peace of Grace?'
LongQuestion == <<84, 104, 101, 32, 112, 101, 97, 99, 101, 32, 111, 102, 32, 71, 114, 97, 99, 101, 63>>

AdvancedRequests ==
    {Spread(Spread([query |-> q], strategies), limit) :
        q \in {Question, LongQuestion, SubSeq(Greeting, 1, 15)},
        strategies \in {<< >>, [searchStrategies |-> <<"semantic">>],
                        [searchStrategies |-> <<"keyword">>],
                        [searchStrategies |-> <<>>]},
        limit \in {<< >>, [topK |-> 1], [topK |-> 2], [category |-> "Faith"]}}

AdvancedRankings ==
    {<<95, 85, 75, 60>>, <<72, 74, 76, 78>>, <<80, 72, 75, 71>>, <<75, 90, 80, 70, 85>>}

\* operation tags execute has no case for; the tags are case-sensitive
UnknownTags == {"export", "search", "Delete", ""}

Booleans == {TRUE, FALSE}

\* n times the outcome
Repeated(outcome, n) == [k \in 1..n |-> outcome]

\* what the service does during the creation of an index: the index exists
\* or not, listIndexes and createIndex succeed or fail, and the stats calls
\* fail or answer without a count for a while, or for ever
CreateWorlds ==
    {[exists |-> e, list |-> l, create |-> c, stats |-> Repeated(o, n) \o <<last>>] :
        e \in Booleans, l \in {"ok", "fails"}, c \in {"ok", "fails"},
        o \in {"fails", "nocount"}, n \in {0, 1, 2, 59, 60},
        last \in {"count", "fails", "nocount"}}

UpdateRequests ==
    {[title |-> TitleA, operation |-> "metadata-only", newMetadata |-> [category |-> "Hope"]],
     [title |-> TitleA, operation |-> "metadata-only",
      newMetadata |-> [timestamp |-> NoDate, reviewed |-> TRUE]],
     [title |-> TitleZ, operation |-> "metadata-only", newMetadata |-> [category |-> "Hope"]],
     [title |-> TitleA, operation |-> "metadata-only"],
     [title |-> TitleE],
     [title |-> TitleZ],
     [title |-> TitleA, operation |-> "metadata-only", newContent |-> Greeting],
     [title |-> TitleB, newContent |-> TwoParagraphs, newMetadata |-> [category |-> "Hope"]],
     [title |-> TitleZ, newContent |-> Greeting]}

\* an id no record has
GhostId == <<TitleZ, 0, 0>>

\* the lists of ids a caller may name: none, the first record and an id that
\* is not stored, the first two records
IdLists(st) ==
    {<<>>}
    \cup (IF Len(st) >= 1 THEN {<<st[1].id, GhostId>>} ELSE {})
    \cup (IF Len(st) >= 2 THEN {<<st[2].id, st[1].id>>} ELSE {})

DeleteRequests(st) ==
    {[title |-> TitleA], [title |-> TitleA, confirmDeletion |-> FALSE],
     [confirmDeletion |-> TRUE],
     [title |-> TitleA, confirmDeletion |-> TRUE],
     [title |-> TitleZ, confirmDeletion |-> TRUE],
     [category |-> "Faith", confirmDeletion |-> TRUE],
     [title |-> TitleB, category |-> "Faith", confirmDeletion |-> TRUE]}
    \cup {[chunkIds |-> ids, confirmDeletion |-> TRUE] : ids \in IdLists(st)}
    \cup {[chunkIds |-> <<st[1].id>>, title |-> TitleB, category |-> "Faith",
           confirmDeletion |-> c] : c \in {b \in Booleans : Len(st) >= 1}}

CleanupRequests ==
    {<< >>, [dryRun |-> TRUE], [updateTimestamps |-> TRUE],
     [updateTimestamps |-> TRUE, dryRun |-> TRUE],
     [removeDuplicates |-> TRUE, dryRun |-> FALSE],
     [removeEmptyChunks |-> FALSE],
     [removeDuplicates |-> FALSE, removeEmptyChunks |-> FALSE, updateTimestamps |-> TRUE]}
    \cup [removeDuplicates : Booleans, removeEmptyChunks : Booleans,
          updateTimestamps : Booleans, dryRun : {TRUE}]

ListRequests ==
    {<< >>, [limit |-> 1], [category |-> "Faith", sortOrder |-> "asc"],
     [source |-> "Sermon", category |-> "Faith"]}

MetadataRequests ==
    {<< >>, [filters |-> [category |-> "Faith"]],
     [filters |-> [category |-> "Faith"], limit |-> 1, includeContent |-> TRUE]}

Thresholds == {60, 70, 80, 90}

SearchRequests ==
    {[query |-> Question], [query |-> Question, topK |-> 25],
     [query |-> Question, topK |-> 1], [query |-> Question, category |-> "Faith"]}
    \cup {[query |-> Question, topK |-> 25, threshold |-> t] : t \in Thresholds}

\* n paragraphs of three characters
Paragraphs(n) == Flatten([i \in 1..n |-> <<97, 32, 98, 10, 10>>])

\* documents of as many one-paragraph chunks as a few embedding batches and
\* upsert batches hold
LargeDocs ==
    {[title |-> TitleA, content |-> Paragraphs(n), options |-> [chunkSize |-> 1]] :
        n \in {EmbedBatchSize, EmbedBatchSize + 2, UpsertBatchSize, UpsertBatchSize + 1,
               2 * UpsertBatchSize + 1}}

\* an index of more records than a search may return
CrowdedStore ==
    Ingested(<<[title |-> TitleA, content |-> Paragraphs(SearchTopKCap + 5),
                options |-> [chunkSize |-> 1]]>>)

----------------------------------------------------------------------------
(* The state machine *)

NoRequest == [tool |-> "none"]

Init ==
    /\ store \in SeedStores
    /\ api \in Apis
    /\ clock = SeedClock
    /\ phase = "idle"
    /\ request = NoRequest
    /\ result = << >>
    /\ calls = <<>>
    /\ before = <<>>
    /\ opCount = 0
    /\ tasks = <<>>

CanCall == phase = "idle" /\ opCount < MaxOps

\* a call ran to its end after so many ticks: out = [s, result] is what it
\* left and returned
RanFor(tool, operation, options, env, out, ticks) ==
    /\ store' = out.s.store
    /\ calls' = out.s.calls
    /\ result' = out.result
    /\ request' = [tool |-> tool, operation |-> operation, options |-> options, env |-> env]
    /\ before' = store
    /\ phase' = "done"
    /\ clock' = clock + ticks
    /\ opCount' = opCount + 1
    /\ UNCHANGED <<api, tasks>>

Ran(tool, operation, options, env, out) == RanFor(tool, operation, options, env, out, 1)

Manage(operation, options, env) ==
    \E out \in {ManagementExecute(Start(store), env, operation, options)} :
        Ran("manage", operation, options, env, out)

\* ingestion into an index that may hold documents; a large document goes
\* into an empty index
Ingest ==
    /\ CanCall
    /\ \E params \in IngestRequests \cup (IF store = <<>> THEN LargeDocs ELSE {}),
          f \in {NoFault} \cup FaultPlans([embed |-> Many, upsert |-> Many])
                \cup {[NoFault EXCEPT !["embed"] = EmbedBatchSize + 1]},
          done \in Completions :
           \E env \in {Spread(Env(f, <<"fwd">>, FlatScores, api, clock), [done |-> done])} :
               \E out \in {IndexExecute(Start(store), env, params)} :
                   Ran("index", "execute", params, env, out)

\* a batch ingestion; the clock moves with every document
IngestBatch ==
    /\ CanCall
    /\ \E params \in BatchRequests,
          f \in {NoFault} \cup FaultPlans([embed |-> Many, upsert |-> Many]) :
           \E env \in {Env(f, <<"fwd">>, FlatScores, api, clock)} :
               \E out \in {executeBatch(Start(store), env, params)} :
                   RanFor("index", "executeBatch", params, env, out,
                          Max(1, Len(params.documents)))

\* the chunking of a text, on its own
Chunk ==
    /\ CanCall
    /\ \E params \in ChunkRequests :
           \E chunks \in {intelligentChunking(params.content, params.chunkSize,
                                              params.overlap)} :
               Ran("index", "intelligentChunking", params,
                   Env(NoFault, <<"fwd">>, FlatScores, api, clock),
                   [s |-> Start(store), result |-> chunks])

\* the creation of the index at start-up
CreateIndex ==
    /\ CanCall
    /\ \E world \in CreateWorlds :
           \E env \in {Spread(Env(NoFault, <<"fwd">>, FlatScores, api, clock), world)} :
               \E out \in {createIndexIfNotExists(Start(store), env)} :
                   Ran("helper", "createIndexIfNotExists", << >>, env, out)

Search ==
    /\ CanCall
    /\ \E params \in SearchRequests,
          w \in Rankings \cup {[sc |-> <<95, 85, 75, 60>>, ord |-> <<"fwd">>, f |-> f] :
                                  f \in FaultPlans([embed |-> 1, query |-> 1])} :
           \E env \in {Env(Get(w, "f", NoFault), w.ord, w.sc, api, clock)} :
               \E out \in {SearchExecute(Start(store), env, params)} :
                   Ran("search", "execute", params, env, out)

SearchAdvanced ==
    /\ CanCall
    /\ \E params \in AdvancedRequests,
          w \in {[sc |-> sc, f |-> NoFault] : sc \in AdvancedRankings}
                \cup {[sc |-> <<95, 85, 75, 60>>, f |-> f] :
                          f \in FaultPlans([embed |-> 2, query |-> 2])} :
           \E env \in {Env(w.f, <<"fwd">>, w.sc, api, clock)} :
               \E out \in {executeAdvanced(Start(store), env, params)} :
                   Ran("search", "executeAdvanced", params, env, out)

Stats ==
    /\ CanCall
    /\ \E w \in Worlds([stats |-> 1, query |-> Many]) \cup {[f |-> NoFault, ord |-> <<"fwd", "rev">>]} :
           Manage("stats", << >>, Env(w.f, w.ord, FlatScores, api, clock))

List ==
    /\ CanCall
    /\ \E options \in ListRequests, w \in Worlds([query |-> 1]) :
           Manage("list", options, Env(w.f, w.ord, FlatScores, api, clock))

Update ==
    /\ CanCall
    /\ \E options \in UpdateRequests,
          w \in Worlds([query |-> 1, update |-> Many, delete |-> Many, embed |-> Many,
                        upsert |-> 1]) :
           Manage("update", options, Env(w.f, w.ord, FlatScores, api, clock))

Delete ==
    /\ CanCall
    /\ \E options \in DeleteRequests(store), w \in Worlds([query |-> 1, delete |-> Many]) :
           Manage("delete", options, Env(w.f, w.ord, FlatScores, api, clock))

Cleanup ==
    /\ CanCall
    /\ \E options \in CleanupRequests,
          w \in Worlds([query |-> Many, delete |-> Many, update |-> Many]) :
           Manage("cleanup", options, Env(w.f, w.ord, FlatScores, api, clock))

Categories ==
    /\ CanCall
    /\ \E w \in Worlds([query |-> Many, stats |-> 1]) :
           Manage("categories", << >>, Env(w.f, w.ord, FlatScores, api, clock))

SearchByMetadata ==
    /\ CanCall
    /\ \E options \in MetadataRequests, w \in Worlds([query |-> 1]) :
           Manage("search-by-metadata", options, Env(w.f, w.ord, FlatScores, api, clock))

UnknownOperation ==
    /\ CanCall
    /\ \E operation \in UnknownTags,
          options \in {<< >>, [title |-> TitleA, confirmDeletion |-> TRUE]} :
           Manage(operation, options, Env(NoFault, <<"fwd">>, FlatScores, api, clock))

\* the caller has looked at the result; the next call may start
Return ==
    /\ phase = "done"
    /\ phase' = "idle"
    /\ request' = NoRequest
    /\ result' = << >>
    /\ calls' = <<>>
    /\ before' = <<>>
    /\ UNCHANGED <<store, api, clock, opCount, tasks>>

\* the maintenance operations on an index that holds documents
Next ==
    \/ Stats
    \/ List
    \/ Update
    \/ Delete
    \/ Cleanup
    \/ Categories
    \/ SearchByMetadata
    \/ UnknownOperation
    \/ Return

Spec == Init /\ [][Next]_vars

\* searches of an index that holds documents
NextSearch ==
    \/ Search
    \/ Return

\* the seed indexes, and one with more records than a search may return
InitSearch ==
    /\ store \in SeedStores \cup {CrowdedStore}
    /\ api \in Apis
    /\ clock = SeedClock
    /\ phase = "idle"
    /\ request = NoRequest
    /\ result = << >>
    /\ calls = <<>>
    /\ before = <<>>
    /\ opCount = 0
    /\ tasks = <<>>

SpecSearch == InitSearch /\ [][NextSearch]_vars

\* ingestion, starting from an empty index
InitIngest ==
    /\ store = <<>>
    /\ api \in Apis
    /\ clock = 1
    /\ phase = "idle"
    /\ request = NoRequest
    /\ result = << >>
    /\ calls = <<>>
    /\ before = <<>>
    /\ opCount = 0
    /\ tasks = <<>>

NextIngest ==
    \/ Ingest
    \/ Return

SpecIngest == InitIngest /\ [][NextIngest]_vars

\* batch ingestion, starting from an empty index
NextBatch ==
    \/ IngestBatch
    \/ Return

SpecBatch == InitIngest /\ [][NextBatch]_vars

\* advanced searches of an index that holds documents of several sources
\* and ages
InitAdvanced ==
    /\ store \in AdvancedStores
    /\ api \in Apis
    /\ clock = SeedClock + 1
    /\ phase = "idle"
    /\ request = NoRequest
    /\ result = << >>
    /\ calls = <<>>
    /\ before = <<>>
    /\ opCount = 0
    /\ tasks = <<>>

NextAdvanced ==
    \/ SearchAdvanced
    \/ Return

SpecAdvanced == InitAdvanced /\ [][NextAdvanced]_vars

\* the creation of the index
NextCreate ==
    \/ CreateIndex
    \/ Return

SpecCreate == InitIngest /\ [][NextCreate]_vars

\* a caller that ingested a document deletes it by its title; what the
\* caller has seen so far goes along in request.earlier
DeleteIngested ==
    /\ phase = "done"
    /\ request.tool = "index"
    /\ result.success
    /\ ~Has(request, "earlier")
    /\ \E w \in Worlds([query |-> 1, delete |-> Many]) :
           \E env \in {Env(w.f, w.ord, FlatScores, api, clock)},
              options \in {[title |-> request.options.title, confirmDeletion |-> TRUE]} :
               \E out \in {ManagementExecute(Start(store), env, "delete", options)} :
                   /\ store' = out.s.store
                   /\ calls' = out.s.calls
                   /\ result' = out.result
                   /\ request' = [tool |-> "manage", operation |-> "delete",
                                  options |-> options, env |-> env,
                                  earlier |-> <<[request |-> request, result |-> result,
                                                ok |-> \A i \in 1..Len(calls) : calls[i].ok]>>]
                   /\ before' = store
                   /\ clock' = clock + 1
                   /\ opCount' = opCount + 1
                   /\ UNCHANGED <<api, phase, tasks>>

\* the caller then ingests the document again, with the arguments and the
\* options of the first ingestion
IngestAgain ==
    /\ phase = "done"
    /\ request.tool = "manage"
    /\ Has(request, "earlier")
    /\ \E f \in {NoFault} \cup FaultPlans([embed |-> Many, upsert |-> Many]) :
           \E env \in {Spread(Env(f, <<"fwd">>, FlatScores, api, clock),
                               [done |-> request.earlier[1].request.env.done])},
              params \in {request.earlier[1].request.options} :
               \E out \in {IndexExecute(Start(store), env, params)} :
                   /\ store' = out.s.store
                   /\ calls' = out.s.calls
                   /\ result' = out.result
                   /\ request' = [tool |-> "index", operation |-> "execute",
                                  options |-> params, env |-> env,
                                  earlier |-> Append(request.earlier,
                                                     [request |-> request, result |-> result,
                                                      ok |-> \A i \in 1..Len(calls) :
                                                                 calls[i].ok])]
                   /\ before' = store
                   /\ clock' = clock + 1
                   /\ opCount' = opCount + 1
                   /\ UNCHANGED <<api, phase, tasks>>

\* an ingestion, the deletion of the document and its second ingestion
NextAgain ==
    \/ Ingest
    \/ DeleteIngested
    \/ IngestAgain

SpecAgain == Init /\ [][NextAgain]_vars

\* two replacing updates are called at once; each runs up to its next await
\* whenever it is scheduled
RaceRequests ==
    {[title |-> TitleA, newContent |-> Greeting],
     [title |-> TitleA, newContent |-> TwoParagraphs, newMetadata |-> [category |-> "Hope"]],
     [title |-> TitleB, newContent |-> ShortText]}

InitRace ==
    /\ store \in SeedStores
    /\ api \in Apis
    /\ clock = SeedClock
    /\ phase = "idle"
    /\ request = NoRequest
    /\ result = << >>
    /\ calls = <<>>
    /\ before = store
    /\ opCount = 0
    /\ tasks \in {<<[options |-> a, pc |-> "called", matches |-> <<>>, result |-> << >>],
                     [options |-> b, pc |-> "called", matches |-> <<>>, result |-> << >>]>> :
                       a \in RaceRequests, b \in RaceRequests}

\* what execute returns when updateDocument has thrown
UpdateFailed(error) ==
    [operation |-> "update", success |-> FALSE, data |-> << >>,
     errors |-> << <<"Operation failed", error>> >>]

\* a step of a task has run: it left the index, its calls and the task so
TaskStepped(p, s, task) ==
    /\ store' = s.store
    /\ calls' = calls \o s.calls
    /\ tasks' = [tasks EXCEPT ![p] = task]
    /\ clock' = clock + 1
    /\ UNCHANGED <<api, phase, request, result, before, opCount>>

\* updateDocument up to the answer of its query
UpdateReads ==
    \E p \in 1..Len(tasks) :
        /\ tasks[p].pc = "called"
        /\ \E q \in {IndexQuery(Start(store), Env(NoFault, <<"fwd">>, FlatScores, api, clock),
                                 [title |-> tasks[p].options.title], MaxTopK)} :
               TaskStepped(p, q.s,
                   IF Len(q.matches) = 0
                   THEN [tasks[p] EXCEPT !.pc = "returned",
                                         !.result = UpdateFailed("Document not found")]
                   ELSE [tasks[p] EXCEPT !.pc = "found", !.matches = q.matches])

\* updateDocument from the answer of the query to the end of safeDelete
UpdateDeletes ==
    \E p \in 1..Len(tasks) :
        /\ tasks[p].pc = "found"
        /\ \E d \in {safeDelete(Start(store), Env(NoFault, <<"fwd">>, FlatScores, api, clock),
                                 Ids(tasks[p].matches))} :
               TaskStepped(p, d.s,
                   IF d.threw
                   THEN [tasks[p] EXCEPT !.pc = "returned", !.result = UpdateFailed(d.error)]
                   ELSE [tasks[p] EXCEPT !.pc = "deleted"])

\* updateDocument from the end of safeDelete to its return
UpdateReindexes ==
    \E p \in 1..Len(tasks) :
        /\ tasks[p].pc = "deleted"
        /\ \E indexResult \in
                 {IndexExecute(Start(store), Env(NoFault, <<"fwd">>, FlatScores, api, clock),
                               ReindexRequest(tasks[p].options, tasks[p].matches))} :
               TaskStepped(p, indexResult.s,
                   [tasks[p] EXCEPT
                       !.pc = "returned",
                       !.result =
                           [operation |-> "update", success |-> TRUE, errors |-> <<>>,
                            data |-> [operation |-> Get(tasks[p].options, "operation",
                                                        "replace"),
                                      oldChunksDeleted |-> Len(tasks[p].matches),
                                      newChunksCreated |-> indexResult.result.chunksIndexed,
                                      success |-> indexResult.result.success]]])

NextRace ==
    \/ UpdateReads
    \/ UpdateDeletes
    \/ UpdateReindexes

SpecRace == InitRace /\ [][NextRace]_vars

\* the chunking alone
NextChunk ==
    \/ Chunk
    \/ Return

SpecChunk == InitIngest /\ [][NextChunk]_vars

----------------------------------------------------------------------------
(* What the properties below speak of *)

Done == phase = "done"

Managing(operation) ==
    Done /\ request.tool = "manage" /\ request.operation = operation

Indexing == Done /\ request.tool = "index"

Searching == Done /\ request.tool = "search"

CallsOf(kind) == Filter(calls, LAMBDA c : c.kind = kind)

NoCall(kinds) == \A i \in 1..Len(calls) : calls[i].kind \notin kinds

AllCallsOk == \A i \in 1..Len(calls) : calls[i].ok

\* the records the index held when the call started that a filter holds of
IdsWhere(field, value) ==
    {before[i].id : i \in {k \in 1..Len(before) :
                              Get(before[k].metadata, field, "") = value}}

RecordOf(st, id) == st[CHOOSE i \in 1..Len(st) : st[i].id = id]

Confirmed == Get(request.options, "confirmDeletion", FALSE)

----------------------------------------------------------------------------
(* C1: a delete request without confirmDeletion = true, whatever title,      *)
(* chunkIds and category it names, returns success = false, issues no query,  *)
(* delete or update call, and leaves the index as it was.                     *)
C1_UnconfirmedDeleteIsRefused ==
    (Managing("delete") /\ ~Confirmed)
        => /\ ~result.success
           /\ NoCall({"query", "delete", "update"})
           /\ store = before

\* an unconfirmed delete that names stored chunks, a title and a category was refused
C1_Witness ==
    /\ Managing("delete") /\ ~Confirmed
    /\ Has(request.options, "chunkIds") /\ Has(request.options, "title")
    /\ Has(request.options, "confirmDeletion")
    /\ request.options.chunkIds # <<>>
    /\ ~result.success

(* C2, as stated: after a cleanup with removeDuplicates = true and           *)
(* dryRun = false, the other options at their defaults, in which no call     *)
(* failed, of the records with one content hash the first of the sample is   *)
(* still in the index and every later one is not.                            *)
C2_FirstOccurrenceSurvives ==
    (/\ Managing("cleanup")
     /\ request.options = [removeDuplicates |-> TRUE, dryRun |-> FALSE]
     /\ AllCallsOk)
        => LET sampled == Ranked(before, request.env, 1)
               Hashed(i) == Len(Content(sampled[i])) > 0
               Same(i, j) == /\ Hashed(i) /\ Hashed(j)
                             /\ hashContent(Content(sampled[i])) = hashContent(Content(sampled[j]))
           IN  \A j \in 1..Len(sampled) :
                   /\ (\E i \in 1..(j - 1) : Same(i, j)) => sampled[j].id \notin IdSet(store)
                   /\ (/\ \A i \in 1..(j - 1) : ~Same(i, j)
                       /\ \E k \in (j + 1)..Len(sampled) : Same(j, k))
                          => sampled[j].id \in IdSet(store)

C4_CleanupFailureIsReported ==
    (Managing("cleanup") /\ ~AllCallsOk)
        => /\ ~result.success
           /\ Len(result.errors) > 0


(* C5: a search with threshold t returns no result whose score is below t,   *)
(* and for the same answer of the index the results at any higher threshold  *)
(* are among the results at t.                                               *)
C5_ThresholdLaw ==
    Searching =>
        LET t == Get(request.options, "threshold", DefaultThreshold)
            At(t2) == SearchExecute(Start(before), request.env,
                                    Spread(request.options, [threshold |-> t2])).result.results
        IN  /\ \A i \in 1..Len(result.results) : result.results[i].score >= t
            /\ \A t2 \in {x \in Thresholds : x >= t} :
                   /\ Range(At(t2)) \subseteq Range(result.results)
                   /\ Len(At(t2)) <= Len(result.results)

\* a search returned some matches of the answer and dropped others, and a
\* higher threshold drops more
C5_Witness ==
    /\ Searching
    /\ Has(request.options, "threshold")
    /\ result.totalFound > 0
    /\ \E i \in 1..Len(before) : ScoreAt(request.env, i) < request.options.threshold
    /\ \E t2 \in Thresholds :
           /\ t2 > request.options.threshold
           /\ Len(SearchExecute(Start(before), request.env,
                                Spread(request.options, [threshold |-> t2])).result.results)
                  < result.totalFound

(* C6: an update whose title has no chunk in the index fails with the        *)
(* not-found error, an update of a stored title with neither newContent nor  *)
(* newMetadata fails with the invalid-arguments error, and neither issues a  *)
(* delete, an update or an upsert.                                           *)
C6_UpdateRefusals ==
    (Managing("update") /\ calls # <<>> /\ calls[1].ok)
        => LET o == request.options
               known == IdsWhere("title", o.title) # {}
               supplied == Len(Get(o, "newContent", <<>>)) > 0 \/ Has(o, "newMetadata")
           IN  /\ ~known
                   => /\ ~result.success
                      /\ result.errors = << <<"Operation failed", "Document not found">> >>
                      /\ NoCall({"delete", "update", "upsert"})
                      /\ store = before
               /\ (known /\ ~supplied)
                   => /\ ~result.success
                      /\ result.errors =
                             << <<"Operation failed",
                                  "Either newContent or newMetadata must be provided">> >>
                      /\ NoCall({"delete", "update", "upsert"})
                      /\ store = before

\* a replacement of a title that is not stored was refused
C6_Witness ==
    /\ Managing("update")
    /\ calls # <<>> /\ calls[1].ok
    /\ IdsWhere("title", request.options.title) = {}
    /\ Len(Get(request.options, "newContent", <<>>)) > 0
    /\ result.errors = << <<"Operation failed", "Document not found">> >>
    /\ before # <<>>

MetadataOnly ==
    /\ Managing("update")
    /\ Get(request.options, "operation", "replace") = "metadata-only"
    /\ Has(request.options, "newMetadata")
    /\ calls # <<>> /\ calls[1].ok
    /\ IdsWhere("title", request.options.title) # {}

(* C7, as stated: a metadata-only update in which no call fails issues one   *)
(* update per chunk of the document, each carrying the chunk's old metadata  *)
(* overridden by newMetadata, issues no delete and no upsert, and reports    *)
(* chunksUpdated = N.                                                        *)
C7_PatchIsOldOverriddenByNew ==
    (MetadataOnly /\ AllCallsOk)
        => LET chunks == IdsWhere("title", request.options.title)
               updates == CallsOf("update")
           IN  /\ {updates[i].arg.id : i \in 1..Len(updates)} = chunks
               /\ Len(updates) = Cardinality(chunks)
               /\ \A i \in 1..Len(updates) :
                      updates[i].arg.metadata =
                          Spread(RecordOf(before, updates[i].arg.id).metadata,
                                 request.options.newMetadata)
               /\ NoCall({"delete", "upsert"})
               /\ result.data.chunksUpdated = Cardinality(chunks)

(* C7, amended: a metadata-only update issues no delete, no upsert and no    *)
(* embedding call; each update it issues is for a different chunk of the     *)
(* document and carries the chunk's old metadata overridden by newMetadata   *)
(* and then by lastUpdated = the current time; when no call fails there is   *)
(* one update per chunk, the result is a success with chunksUpdated = N, and *)
(* every record keeps its id, its vector and every field not named in        *)
(* newMetadata or lastUpdated; when a call fails the result is a failure.    *)
C7_MetadataOnlyPatches ==
    MetadataOnly
        => LET chunks == IdsWhere("title", request.options.title)
               updates == CallsOf("update")
               Patch(id) == Spread(Spread(RecordOf(before, id).metadata,
                                          request.options.newMetadata),
                                   [lastUpdated |-> [year |-> ThisYear,
                                                     tick |-> request.env.now]])
           IN  /\ NoCall({"delete", "upsert", "embed"})
               /\ \A i \in 1..Len(updates) :
                      /\ updates[i].arg.id \in chunks
                      /\ updates[i].arg.metadata = Patch(updates[i].arg.id)
                      /\ \A j \in 1..Len(updates) :
                             updates[j].arg.id = updates[i].arg.id => i = j
               /\ AllCallsOk
                   => /\ Len(updates) = Cardinality(chunks)
                      /\ result.success
                      /\ result.data.chunksUpdated = Cardinality(chunks)
                      /\ Len(store) = Len(before)
                      /\ \A i \in 1..Len(store) :
                             /\ store[i].id = before[i].id
                             /\ store[i].values = before[i].values
                             /\ store[i].metadata =
                                    IF store[i].id \in chunks THEN Patch(store[i].id)
                                    ELSE before[i].metadata
               /\ ~AllCallsOk => ~result.success

\* a metadata-only update of a document of two chunks succeeded
C7_Witness ==
    /\ MetadataOnly /\ AllCallsOk
    /\ Cardinality(IdsWhere("title", request.options.title)) = 2
    /\ result.success
    /\ result.data.chunksUpdated = 2
    /\ store # before

\* the ids a confirmed delete is to delete, by the priority of its options
Resolved ==
    LET o == request.options
    IN  IF Has(o, "chunkIds") THEN Range(o.chunkIds)
        ELSE IF Get(o, "title", <<>>) # <<>> THEN IdsWhere("title", o.title)
        ELSE IdsWhere("category", Get(o, "category", ""))

(* C8: a confirmed delete that names a target takes its ids from the         *)
(* explicit list if there is one, else from the records of the title, else   *)
(* from the records of the category; the delete calls it issues name those   *)
(* ids and no other, and when no call fails the index loses those records    *)
(* and no other and deletedCount is their number; when there is no such id   *)
(* it returns success with deletedCount = 0 and issues no delete call.       *)
C8_DeleteResolvesTarget ==
    (/\ Managing("delete") /\ Confirmed
     /\ Target(request.options) # "none"
     /\ \A i \in 1..Len(calls) : calls[i].kind = "query" => calls[i].ok)
        => LET deletes == CallsOf("delete")
               named == UNION {Range(deletes[i].arg.ids) : i \in 1..Len(deletes)}
           IN  /\ Resolved = {}
                   => /\ result.success
                      /\ result.data.deletedCount = 0
                      /\ NoCall({"delete"})
                      /\ store = before
               /\ Resolved # {}
                   => /\ named = Resolved
                      /\ AllCallsOk
                          => /\ result.success
                             /\ store = Without(before, Resolved)
                             /\ result.data.deletedCount =
                                    IF Has(request.options, "chunkIds")
                                    THEN Len(request.options.chunkIds)
                                    ELSE Cardinality(Resolved)

\* a confirmed delete naming a chunk, another document's title and a category
\* deleted the chunk and left the document of that title
C8_Witness ==
    /\ Managing("delete") /\ Confirmed /\ AllCallsOk
    /\ Has(request.options, "chunkIds") /\ Has(request.options, "title")
    /\ request.options.chunkIds # <<>>
    /\ result.success
    /\ Len(store) = Len(before) - 1
    /\ \E i \in 1..Len(store) : store[i].metadata.title = request.options.title

FailedEmbeds == {i \in 1..Len(calls) : calls[i].kind = "embed" /\ ~calls[i].ok}

(* C9: when an embedding call fails during an ingestion, no embedding call   *)
(* of a later batch is issued, no upsert is issued, the index is as it was,  *)
(* and the result has success = false and chunksIndexed = 0.                 *)
C9_EmbeddingFailureAborts ==
    (Indexing /\ FailedEmbeds # {})
        => /\ \A k \in FailedEmbeds :
                  Len(CallsOf("embed")) <= CeilDiv(k, EmbedBatchSize) * EmbedBatchSize
           /\ NoCall({"upsert"})
           /\ store = before
           /\ ~result.success
           /\ result.chunksIndexed = 0

\* an embedding call of the first batch failed in the ingestion of a document
\* of more than two batches, and the first batch was the last
C9_Witness ==
    /\ Indexing /\ FailedEmbeds # {}
    /\ Len(Get(request.options, "content", <<>>)) > 5 * 2 * EmbedBatchSize
    /\ Len(calls) = EmbedBatchSize
    /\ ~result.success

(* C10: an ingestion upserts its records in consecutive batches of at most   *)
(* 100; when a batch fails the records of the batches before it are in the   *)
(* index, no later batch is attempted, and the result has success = false.   *)
C10_UpsertBatches ==
    Indexing
        => LET upserts == CallsOf("upsert")
               n == Len(upserts)
               committed == UNION {Range(upserts[j].arg) : j \in {k \in 1..n : upserts[k].ok}}
           IN  /\ \A j \in 1..n :
                      /\ Len(upserts[j].arg) \in 1..UpsertBatchSize
                      /\ j < n => Len(upserts[j].arg) = UpsertBatchSize
                      /\ \A i \in 1..Len(upserts[j].arg) :
                             upserts[j].arg[i][2] = (j - 1) * UpsertBatchSize + i - 1
                      /\ j < n => upserts[j].ok
               /\ IdSet(store) = IdSet(before) \cup committed
               /\ (n > 0 /\ ~upserts[n].ok) => ~result.success

\* the second batch of an ingestion failed and the first is in the index
C10_Witness ==
    /\ Indexing
    /\ Len(CallsOf("upsert")) = 2
    /\ ~CallsOf("upsert")[2].ok
    /\ Len(store) = Len(before) + UpsertBatchSize
    /\ ~result.success

\* the records an ingestion added to the index, in the order of the index
Fresh == Filter(store, LAMBDA r : r.id \notin IdSet(before))

(* C11: in an ingestion, the i-th record added to the index (from 0) has     *)
(* chunkIndex = i, totalChunks = the number N of chunks, the text of the     *)
(* i-th chunk as its content and the embedding of that text as its vector,   *)
(* in whichever order the concurrent embedding calls of a batch complete;    *)
(* a successful ingestion adds N records and reports chunksIndexed = N.      *)
C11_RecordsFollowChunks ==
    Indexing
        => LET embeds == CallsOf("embed")
               N == Len(embeds)
           IN  /\ Len(Fresh) <= N
               /\ \A i \in 1..Len(Fresh) :
                      /\ Fresh[i].metadata.chunkIndex = i - 1
                      /\ Fresh[i].id[2] = i - 1
                      /\ Fresh[i].metadata.totalChunks = N
                      /\ Fresh[i].metadata.content = embeds[i].arg
                      /\ Fresh[i].values = Embedding(embeds[i].arg)
               /\ result.success => (Len(Fresh) = N /\ result.chunksIndexed = N)

\* an ingestion of two chunks of different text succeeded while the embedding
\* call issued last completed first
C11_Witness ==
    /\ Indexing
    /\ request.env.done = "rev"
    /\ result.success
    /\ Len(Fresh) = 2
    /\ Fresh[1].metadata.content # Fresh[2].metadata.content

\* an ingestion that is given a file path and no inline content
FromFile ==
    /\ Indexing
    /\ Get(request.options, "filePath", "") # ""
    /\ Len(Get(request.options, "content", <<>>)) = 0

SupportedTypes == {".txt", ".md", ".pdf", ".html", ".json"}

(* C12: an ingestion from a file path, without inline content, whose file   *)
(* is missing or has an unsupported extension returns success = false and    *)
(* the error of the file alone: nothing was validated, chunked, embedded or  *)
(* upserted, no embedding call and no index call was issued.                 *)
C12_UnavailableFileFailsFirst ==
    FromFile
        => LET path == request.options.filePath
               files == request.env.files
           IN  /\ path \notin DOMAIN files
                   => /\ ~result.success
                      /\ result.errors = << <<"File not found", path>> >>
                      /\ result.warnings = <<>>
                      /\ result.chunksIndexed = 0
                      /\ calls = <<>>
                      /\ store = before
               /\ (path \in DOMAIN files /\ files[path].ext \notin SupportedTypes)
                   => /\ ~result.success
                      /\ result.errors = << <<"Unsupported file type", files[path].ext>> >>
                      /\ result.warnings = <<>>
                      /\ result.chunksIndexed = 0
                      /\ calls = <<>>
                      /\ store = before

\* an ingestion from a file of an unsupported type was turned down
C12_Witness ==
    /\ FromFile
    /\ request.options.filePath \in DOMAIN request.env.files
    /\ request.env.files[request.options.filePath].ext = ".exe"
    /\ ~result.success
    /\ Len(result.errors) = 1
    /\ calls = <<>>

\* the content an ingestion works on: the inline content, or the text of its file
DocumentContent ==
    IF FromFile THEN processFile(request.env, request.options.filePath).content
    ELSE Get(request.options, "content", <<>>)

\* an ingestion whose content, once it has it, is empty or only whitespace
BlankIngestion ==
    /\ Indexing
    /\ FromFile => processFile(request.env, request.options.filePath).success
    /\ Trim(DocumentContent) = <<>>

Validating == Get(Get(request.options, "options", DefaultIndexOptions), "validateContent", FALSE)

(* C13: an ingestion of empty or whitespace-only content, with               *)
(* validateContent on or off, returns success = false, a non-empty errors    *)
(* list and chunksIndexed = 0, and issues no embedding call and no upsert.   *)
C13_BlankContentFails ==
    BlankIngestion
        => /\ ~result.success
           /\ Len(result.errors) > 0
           /\ result.chunksIndexed = 0
           /\ NoCall({"embed", "upsert"})
           /\ store = before

\* whitespace-only content that was not validated gave no chunk
C13_Witness ==
    /\ BlankIngestion
    /\ ~Validating
    /\ Len(DocumentContent) > 0
    /\ result.errors = << <<"No valid chunks created from content">> >>
    /\ calls = <<>>

\* what validateContent says about the content of the ingestion under way
Validation == validateContent(DocumentContent, request.options.title)

(* C14, as stated: with validateContent set and a non-empty title, non-empty  *)
(* content that triggers only warnings is not blocked (no error is reported   *)
(* before chunking, and the ingestion succeeds when no call fails), and the   *)
(* warnings list of the result contains every warning that was triggered.     *)
C14_WarningsAreReturned ==
    (/\ Indexing
     /\ Validating
     /\ FromFile => processFile(request.env, request.options.filePath).success
     /\ Validation.isValid)
        => /\ AllCallsOk => result.success
           /\ CallsOf("embed") # <<>>
           /\ \A i \in 1..Len(Validation.warnings) :
                  \E j \in 1..Len(result.warnings) :
                      result.warnings[j] = Validation.warnings[i]

Batching == Done /\ request.tool = "index" /\ request.operation = "executeBatch"

\* the number of results of the batch that report success
Succeeded == Len(Filter(result.results, LAMBDA r : r.success))

(* C15: a batch ingestion of n documents attempts every document exactly     *)
(* once, in input order, whether or not earlier documents failed: the i-th   *)
(* result is that of the i-th document, total = n, successful + failed =     *)
(* total, and successful is the number of results with success = true.       *)
C15_BatchAttemptsEveryDocument ==
    Batching =>
        LET documents == request.options.documents IN
        /\ result.total = Len(documents)
        /\ Len(result.results) = Len(documents)
        /\ \A i \in 1..Len(documents) :
               /\ result.results[i].title = documents[i].title
               /\ result.results[i]
                      = IndexExecute(Start(<<>>), request.env,
                                     BatchParams(documents[i],
                                                 Get(request.options, "options",
                                                     DefaultIndexOptions))).result
                  \/ ~AllCallsOk
        /\ result.successful + result.failed = result.total
        /\ result.successful = Succeeded

\* a batch whose first document failed and whose last one was indexed
C15_Witness ==
    /\ Batching
    /\ result.total = 3
    /\ ~result.results[1].success
    /\ result.results[3].success
    /\ result.successful < 3
    /\ Len(store) = result.successful

Chunking == Done /\ request.tool = "index" /\ request.operation = "intelligentChunking"

\* the paragraphs the chunking of the request went through
ChunkedParagraphs == NonBlank(SplitParagraphs(request.options.content))

\* the accumulator after the first i paragraphs
AccumulatorAfter(i) ==
    FoldRange(LAMBDA st, j : ParagraphStep(st, ChunkedParagraphs[j],
                                           request.options.chunkSize,
                                           request.options.overlap),
              [chunks |-> <<>>, cur |-> <<>>, size |-> 0], 1, i)

\* the i-th paragraph closed the current chunk: it fits a chunk on its own,
\* but not the one being accumulated
Closes(i) ==
    /\ Len(ChunkedParagraphs[i]) <= request.options.chunkSize
    /\ AccumulatorAfter(i - 1).size + Len(ChunkedParagraphs[i]) > request.options.chunkSize
    /\ Len(AccumulatorAfter(i - 1).cur) > 0

\* the whitespace-delimited words of a text
WordsOf(text) == Filter(SplitWs(text), LAMBDA w : Len(w) > 0)

\* the last n of these words
LastWords(words, n) == SubSeq(words, Max(1, Len(words) - n + 1), Len(words))

(* C16, as stated: whenever the chunking closes a chunk because the next      *)
(* paragraph would exceed chunkSize, the next chunk begins with exactly the   *)
(* last floor(overlap / 10) whitespace-delimited words of the closed chunk,   *)
(* followed by the new paragraph, for every chunkSize > 0 and overlap >= 0;   *)
(* paragraphs of 800 and 400 characters with chunkSize 1000 and overlap 200   *)
(* give 2 chunks, the second starting with the last 20 words of the first.    *)
C16_SeedIsLastWords ==
    Chunking =>
        /\ \A i \in 1..Len(ChunkedParagraphs) :
               Closes(i) =>
                   LET closed == AccumulatorAfter(i - 1).cur
                       next == AccumulatorAfter(i).cur
                       paragraph == ChunkedParagraphs[i]
                       lead == Len(next) - Len(paragraph)
                   IN  /\ lead >= 0
                       /\ SubSeq(next, lead + 1, Len(next)) = paragraph
                       /\ WordsOf(SubSeq(next, 1, lead))
                              = LastWords(WordsOf(closed), request.options.overlap \div 10)
        /\ request.options.content = LongTwoParagraphs
               => /\ Len(result) = 2
                  /\ SubSeq(WordsOf(result[2]), 1, 20) = LastWords(WordsOf(result[1]), 20)

\* what is left of a text without its whitespace
NonWhitespace(text) == Filter(text, LAMBDA c : ~IsSpace(c))

\* rest is made of the chunks from the i-th on, each without some prefix
RECURSIVE Rebuilds(_, _, _)
Rebuilds(chunks, i, rest) ==
    IF i > Len(chunks) THEN rest = <<>>
    ELSE LET c == NonWhitespace(chunks[i]) IN
         \E k \in 0..Min(Len(c), Len(rest)) :
             /\ SubSeq(c, Len(c) - k + 1, Len(c)) = SubSeq(rest, 1, k)
             /\ Rebuilds(chunks, i + 1, SubSeq(rest, k + 1, Len(rest)))

(* C17, as stated: for content of length > 0 and every chunkSize and         *)
(* overlap, the chunks, concatenated in order after removing from each its   *)
(* overlap-duplicated prefix, are exactly the non-whitespace characters of   *)
(* the content, on the sentence-split path as well.                          *)
C17_ChunksRebuildContent ==
    (Chunking /\ Len(request.options.content) > 0)
        => Rebuilds(result, 1, NonWhitespace(request.options.content))

(* C18, as stated: no chunk that comes from the paragraph accumulator has a  *)
(* length greater than chunkSize plus the length of its overlap seed, the    *)
(* last floor(overlap / 10) words of the chunk closed before it.             *)
C18_AccumulatorChunkBound ==
    Chunking =>
        \A i \in 1..Len(ChunkedParagraphs) :
            Closes(i) =>
                LET seed == Join(LastWords(WordsOf(AccumulatorAfter(i - 1).cur),
                                           request.options.overlap \div 10), SP)
                IN  Len(Trim(AccumulatorAfter(i).cur))
                        <= request.options.chunkSize + Len(seed)

SimpleSearching == Searching /\ request.operation = "execute"

\* the index answered the search, and with no match at or above the threshold
NothingQualifies ==
    /\ SimpleSearching
    /\ AllCallsOk
    /\ Len(CallsOf("query")) = 1
    /\ LET topK == Min(Get(request.options, "topK", DefaultTopK), SearchTopKCap)
           filter == IF Has(request.options, "category")
                     THEN [category |-> request.options.category] ELSE << >>
           matches == IndexQuery(Start(before), request.env, filter, topK).matches
       IN  \A i \in 1..Len(matches) :
               matches[i].score < Get(request.options, "threshold", DefaultThreshold)

(* C20: when no match the index returns has a score at or above the          *)
(* threshold, the search returns normally with totalFound = 0, no result, a  *)
(* non-empty suggestions list and no error field; and in every outcome of a  *)
(* search totalFound is the length of results.                               *)
C20_NothingFoundIsNoError ==
    SimpleSearching =>
        /\ result.totalFound = Len(result.results)
        /\ NothingQualifies
               => /\ result.totalFound = 0
                  /\ result.results = <<>>
                  /\ Has(result, "suggestions")
                  /\ Len(result.suggestions) > 0
                  /\ ~Has(result, "error")

\* the index holds records and answered with matches, all below the threshold
C20_Witness ==
    /\ NothingQualifies
    /\ \E i \in 1..Len(before) :
           /\ ScoreAt(request.env, i) < Get(request.options, "threshold", DefaultThreshold)
           /\ ScoreAt(request.env, i) > 0
    /\ Get(request.options, "threshold", DefaultThreshold) = 90
    /\ result.suggestions = NoResultSuggestions

AdvancedSearching == Searching /\ request.operation = "executeAdvanced"

\* the results of the strategies of an advanced search that returned,
\* semantic before keyword
AllResults == result.semantic \o result.keyword

\* the i-th of these results is the first with its content prefix
FirstOfPrefix(i) ==
    \A j \in 1..(i - 1) :
        ContentPrefix(AllResults[j].content) # ContentPrefix(AllResults[i].content)

\* a result of the combined list, as the strategy returned it
Unranked(r) == [k \in DOMAIN r \ {"rerankScore"} |-> r[k]]

(* C19, as stated: an advanced search returns a combined list; the list has  *)
(* no two results with the same normalised content prefix, each being the    *)
(* first occurrence of its prefix among the results, semantic before         *)
(* keyword; it has at most topK entries in order of non-increasing           *)
(* rerankScore; it omits no deduplicated result whose rerankScore is higher  *)
(* than that of an included one (and none at all when it has room left);     *)
(* and no rerankScore is above 1.0.                                          *)
C19_CombinedList ==
    AdvancedSearching =>
        LET combined == result.combined
            topK == Get(request.options, "topK", DefaultAdvancedTopK)
            included == {Unranked(combined[i]) : i \in 1..Len(combined)}
        IN  /\ ~result.threw
            /\ \A i, j \in 1..Len(combined) :
                   i < j => ContentPrefix(combined[i].content)
                                # ContentPrefix(combined[j].content)
            /\ \A i \in 1..Len(combined) :
                   \E k \in 1..Len(AllResults) :
                       FirstOfPrefix(k) /\ AllResults[k] = Unranked(combined[i])
            /\ Len(combined) <= topK
            /\ \A i \in 1..(Len(combined) - 1) :
                   combined[i].rerankScore >= combined[i + 1].rerankScore
            /\ \A k \in 1..Len(AllResults) :
                   (FirstOfPrefix(k) /\ AllResults[k] \notin included)
                       => /\ Len(combined) = topK
                          /\ \A i \in 1..Len(combined) :
                                 calculateRerankScore(AllResults[k], request.options.query)
                                     <= combined[i].rerankScore
            /\ \A i \in 1..Len(combined) : combined[i].rerankScore <= MaxRerankScore

(* C21: for every topK the caller supplies, a search queries the index with  *)
(* topK equal to min(topK, 20), and so never returns more than 20 results.   *)
C21_TopKIsCapped ==
    SimpleSearching =>
        /\ \A i \in 1..Len(calls) :
               calls[i].kind = "query"
                   => calls[i].arg.topK
                          = Min(Get(request.options, "topK", DefaultTopK), 20)
        /\ Len(result.results) <= 20

\* 25 results were asked of an index with 25 qualifying records: 20 came
C21_Witness ==
    /\ SimpleSearching
    /\ Get(request.options, "topK", DefaultTopK) = 25
    /\ Len(before) > 20
    /\ \A i \in 1..Len(before) :
           ScoreAt(request.env, i) >= Get(request.options, "threshold", DefaultThreshold)
    /\ Len(result.results) = 20

\* the operation tags the maintenance execute is specified for
KnownTags ==
    {"stats", "list", "update", "delete", "cleanup", "categories", "search-by-metadata"}

(* C22: the maintenance execute, called with an operation tag outside        *)
(* {stats, list, update, delete, cleanup, categories, search-by-metadata},   *)
(* returns a result (it does not throw) with success = false and a non-empty *)
(* errors list, and issues no call to the index or the embedding service.    *)
C22_UnknownOperationIsRefused ==
    (Done /\ request.tool = "manage" /\ request.operation \notin KnownTags)
        => /\ result.operation = request.operation
           /\ ~result.success
           /\ Len(result.errors) > 0
           /\ calls = <<>>
           /\ store = before

\* 'Delete' with a confirmed deletion by title was refused and deleted nothing
C22_Witness ==
    /\ Done /\ request.tool = "manage"
    /\ request.operation = "Delete"
    /\ Get(request.options, "confirmDeletion", FALSE)
    /\ result.errors = << <<"Unknown operation", "Delete">> >>
    /\ store = before /\ store # <<>>

\* a confirmed delete that found the ids of its target and called safeDelete
SafeDeleting ==
    /\ Managing("delete") /\ Confirmed
    /\ Target(request.options) # "none"
    /\ \A i \in 1..Len(calls) : calls[i].kind = "query" => calls[i].ok
    /\ Resolved # {}

\* the ids of the delete calls that succeeded
DeletedIds ==
    UNION {Range(calls[i].arg.ids) :
              i \in {j \in 1..Len(calls) : calls[j].kind = "delete" /\ calls[j].ok}}

Creating == Done /\ request.tool = "helper"

(* C24, as stated: createIndexIfNotExists issues no create call when the     *)
(* index exists (and could be listed); when the index is absent it creates   *)
(* it and polls the stats every 5 seconds, returning once readiness is       *)
(* observed; and when readiness is never observed (every stats call fails)   *)
(* it fails with an index-creation timeout error once the 300 seconds have   *)
(* passed, instead of reporting the index ready.                             *)
C24_CreateWaitsForReadiness ==
    Creating =>
        LET polls == CallsOf("stats")
            world == request.env
        IN  /\ (world.exists /\ world.list = "ok") => NoCall({"create", "stats"})
            /\ \A k \in 1..Len(polls) : polls[k].arg = (k - 1) * 5
            /\ (Len(polls) > 0 /\ \E k \in 1..Len(polls) : StatsOutcome(world, k) = "count")
                   => /\ ~result.threw
                      /\ StatsOutcome(world, Len(polls)) = "count"
                      /\ \A k \in 1..(Len(polls) - 1) : StatsOutcome(world, k) # "count"
            /\ (Len(polls) > 0 /\ \A k \in 1..Len(polls) : ~polls[k].ok)
                   => /\ result.threw
                      /\ result.error = <<"Failed to create index", "Index creation timeout">>
                      /\ result.elapsed >= 300

----------------------------------------------------------------------------
\* the second ingestion of a document has returned
IngestedAgain == Indexing /\ Has(request, "earlier")

\* the records a store holds under a title
HeldUnder(st, title) ==
    {st[i].id : i \in {k \in 1..Len(st) : Get(st[k].metadata, "title", "") = title}}

(* C25: when a document is ingested with success, deleted by its title with  *)
(* confirmation and ingested again with the same arguments and options, and  *)
(* no call of the deletion or of the second ingestion to the index or to the *)
(* embedding service fails, the second ingestion reports the chunksIndexed   *)
(* of the first, and the index then holds exactly that many records under    *)
(* the title.                                                                *)
C25_IngestDeleteIngest ==
    (IngestedAgain /\ request.earlier[2].ok /\ AllCallsOk) =>
        /\ result.success
        /\ result.chunksIndexed = request.earlier[1].result.chunksIndexed
        /\ Cardinality(HeldUnder(store, request.options.title)) = result.chunksIndexed

C25_Witness ==
    /\ IngestedAgain
    /\ request.earlier[2].ok
    /\ AllCallsOk
    /\ result.chunksIndexed > 1
    /\ request.earlier[2].result.data.deletedCount > result.chunksIndexed

----------------------------------------------------------------------------
\* both updates have returned and report a re-indexing that succeeded
BothReplaced ==
    /\ Len(tasks) = 2
    /\ \A p \in 1..2 : /\ tasks[p].pc = "returned"
                        /\ tasks[p].result.success
                        /\ tasks[p].result.data.success

\* both updates are of one title and their queries were answered with the
\* same chunks
ReadTheSame ==
    /\ Len(tasks) = 2
    /\ tasks[1].options.title = tasks[2].options.title
    /\ tasks[1].matches = tasks[2].matches
    /\ Len(tasks[1].matches) > 0

\* the contents of the records a store holds under a title
ContentsUnder(st, title) ==
    {Content(st[i]) : i \in {k \in 1..Len(st) : Get(st[k].metadata, "title", "") = title}}

\* the chunks the re-indexing of an update makes of the new content
NewChunks(options) ==
    Range(intelligentChunking(options.newContent, DefaultChunkSize, DefaultChunkOverlap))

(* C26: nothing keeps two replacing updates of one title apart: whenever the  *)
(* queries of both were answered with the same old chunks and both have      *)
(* returned with success, the old chunks are gone and the index holds, under *)
(* the one title, the chunks of both new contents: as many records as the    *)
(* two calls report to have created together.                                *)
C26_ConcurrentReplacesBothStay ==
    (BothReplaced /\ ReadTheSame) =>
        LET title == tasks[1].options.title
        IN  /\ HeldUnder(store, title) \cap IdSet(tasks[1].matches) = {}
            /\ Cardinality(HeldUnder(store, title))
                   = tasks[1].result.data.newChunksCreated
                     + tasks[2].result.data.newChunksCreated
            /\ ContentsUnder(store, title)
                   = NewChunks(tasks[1].options) \cup NewChunks(tasks[2].options)

C26_Witness ==
    /\ BothReplaced
    /\ ReadTheSame
    /\ tasks[1].options.newContent # tasks[2].options.newContent
    /\ NewChunks(tasks[1].options) \cap NewChunks(tasks[2].options) = {}
    /\ NewChunks(tasks[1].options) \cup NewChunks(tasks[2].options)
           \subseteq ContentsUnder(store, tasks[1].options.title)

----------------------------------------------------------------------------
\* the contents the records of a store hold, by id
ContentById(st) == {<<st[i].id, Content(st[i])>> : i \in 1..Len(st)}

(* C27, as stated: an update called with operation = 'metadata-only' never   *)
(* deletes or re-inserts a record, whatever other options come with it: it   *)
(* issues no delete, embedding or upsert call, and the index holds the same  *)
(* record ids with the same contents before and after the call.              *)
C27_MetadataOnlyKeepsRecords ==
    (Managing("update") /\ Get(request.options, "operation", "replace") = "metadata-only") =>
        /\ NoCall({"delete", "embed", "upsert"})
        /\ ContentById(store) = ContentById(before)

----------------------------------------------------------------------------
\* an update that replaces the content of a document has returned
Replacing ==
    /\ Managing("update")
    /\ Get(request.options, "operation", "replace") = "replace"

(* C28, as stated: whenever execute('update') in replace mode returns with   *)
(* success = true at the top level, the re-ingestion of the new content      *)
(* succeeded: data.success is true, data.newChunksCreated is at least 1, and *)
(* the index holds that many new records under the title.                    *)
C28_ReplaceSuccessMeansReindexed ==
    (Replacing /\ result.success) =>
        /\ result.data.success
        /\ result.data.newChunksCreated >= 1
        /\ Cardinality(HeldUnder(store, request.options.title) \ IdSet(before))
               = result.data.newChunksCreated

----------------------------------------------------------------------------
\* the ids the delete calls of the last call named, in order
IdsSentToDelete ==
    Flatten([i \in 1..Len(CallsOf("delete")) |-> CallsOf("delete")[i].arg.ids])

(* C29, as stated: after a cleanup that is not a dry run, with               *)
(* removeEmptyChunks and removeDuplicates both enabled, in which no call     *)
(* failed, emptyChunksRemoved + duplicatesRemoved is the number of records   *)
(* removed from the index: no id is passed to delete twice, and no record    *)
(* that was deleted is sent a timestamp update afterwards.                   *)
C29_CleanupCountsDistinctRemovals ==
    (/\ Managing("cleanup")
     /\ ~Get(request.options, "dryRun", FALSE)
     /\ Get(request.options, "removeEmptyChunks", TRUE)
     /\ Get(request.options, "removeDuplicates", TRUE)
     /\ AllCallsOk)
        => /\ result.data.emptyChunksRemoved + result.data.duplicatesRemoved
                  = Cardinality(IdSet(before) \ IdSet(store))
           /\ \A i, j \in 1..Len(IdsSentToDelete) :
                  IdsSentToDelete[i] = IdsSentToDelete[j] => i = j
           /\ \A k \in 1..Len(CallsOf("update")) :
                  CallsOf("update")[k].arg.id \notin Range(IdsSentToDelete)

----------------------------------------------------------------------------
(* C30: an ingestion returns success = true only after every upsert batch    *)
(* has succeeded, and then chunksIndexed is the number of records the call   *)
(* wrote to the index and the totalChunks of each of them; whenever it       *)
(* returns success = false, chunksIndexed is 0, also when batches were       *)
(* committed before the failure.                                             *)
C30_ChunksIndexedOnlyOnSuccess ==
    Indexing
        => /\ result.success
                  => /\ Len(CallsOf("upsert")) >= 1
                     /\ \A k \in 1..Len(CallsOf("upsert")) : CallsOf("upsert")[k].ok
                     /\ result.chunksIndexed = Len(Fresh)
                     /\ result.chunksIndexed
                            = Len(Flatten([k \in 1..Len(CallsOf("upsert")) |->
                                              CallsOf("upsert")[k].arg]))
                     /\ \A i \in 1..Len(Fresh) :
                            Fresh[i].metadata.totalChunks = result.chunksIndexed
           /\ ~result.success => result.chunksIndexed = 0

\* an ingestion failed at an upsert batch after the first: the records of
\* the first batch are in the index and chunksIndexed is 0
C30_Witness ==
    /\ Indexing
    /\ ~result.success
    /\ result.chunksIndexed = 0
    /\ Len(CallsOf("upsert")) > 1
    /\ Len(Fresh) >= UpsertBatchSize
    /\ \A i \in 1..Len(Fresh) : Fresh[i].metadata.totalChunks > Len(Fresh)

====
